---- MODULE Spec2Model ----
(***************************************************************************)
(* A model of yaml_runner (src/src/yaml_runner/yaml_runner.py) and of its   *)
(* command-line entry point (src/examples/yaml_runner_run.py).              *)
(*                                                                          *)
(* Python values are tagged records: None, str (a sequence of symbols),     *)
(* list (a sequence of values) and dict (an insertion-ordered sequence of   *)
(* key/value items).  A dict that the runner holds by reference is        *)
(* addressed by its path of keys from the configuration root, so that an    *)
(* in-place change of a node is a change of the configuration.              *)
(***************************************************************************)
EXTENDS Integers, Sequences, FiniteSets, TLC

VARIABLES
    pc,              \* position of the caller/runner: see the actions
    caller,          \* "cli" (examples/yaml_runner_run.py) or "api" (a program calling run)
    file_doc,        \* the document stored in the file named "f"
    supplied,        \* ghost: the configuration as the caller supplied it / as it was loaded
    by_ref,          \* the runner's _config is the caller's own dict object
    config,          \* YamlRunner._config
    external_args,   \* YamlRunner._external_args
    remaining_args,  \* YamlRunner._remaining_args ([t |-> "none"] or a list of tokens)
    used_args,       \* YamlRunner._used_args
    help1,           \* ghost: default_args.help of the pre-config stage
    command_dicts,   \* command_dicts of _process_commands: paths of the command nodes
    command_tok,     \* ghost: commands.command of the command-selection stage
    help2,           \* ghost: commands.help of the command-selection stage
    command_dict,    \* YamlRunner._command_dict: path of the active command node
    commands,        \* YamlRunner.commands
    commands_alias,  \* YamlRunner.commands is the list object held in _config
    stages_parsed,   \* ghost: the stages whose parse_known_args has returned, in order
    passthrough,     \* passthrough of _process_command_config
    help3,           \* ghost: command_params.help of the command-parameter stage
    launched,        \* ghost: the command lines handed to subprocess.Popen, in order
    stdout_list,     \* stdout_list of _run_commands
    stderr_list,     \* stderr_list of _run_commands
    exit_code_list,  \* exit_code_list of _run_commands
    out,             \* what the parsing pipeline printed on sys.stdout
    err,             \* what the parsing pipeline printed on sys.stderr
    term,            \* how run ended: return, SystemExit(code) or another exception
    process_exit,    \* exit status of the CLI process
    supply,          \* ghost: a configuration given in several forms, one run per form
    rendering,       \* a call of add_choices_to_help: its arguments and its result
    frame,           \* the frame of _run_command: its position and its locals
    procs,           \* the child processes launched by subprocess.Popen, in order
    pipes,           \* proc.stdout and proc.stderr of each child: the bytes in the pipe
    drains,          \* stdout_thread and stderr_thread of each call of _run_command
    results,         \* stdout_result and stderr_result of each call of _run_command
    channels,        \* what the drain tasks wrote on sys.stdout and sys.stderr
    reads,           \* ghost: each read of stdout_result[0] / stderr_result[0]
    session          \* the runs made on one runner: their number, the argparse build

vars == <<pc, caller, file_doc, supplied, by_ref, config, external_args,
          remaining_args, used_args, help1, command_dicts, command_tok, help2,
          command_dict, commands, commands_alias, stages_parsed, passthrough,
          help3, launched, stdout_list, stderr_list, exit_code_list, out, err,
          term, process_exit, supply, rendering, frame, procs, pipes,
          drains, results, channels, reads, session>>

\* the variables that belong to the other specifications of this module:
\* the actions of a run leave them alone
aside == <<supply, rendering, frame, procs, pipes, drains, results, channels, reads,
           session>>

\* the variables of the calls of _run_command
child_vars == <<frame, procs, pipes, drains, results, channels, reads>>

\* the fields of a runner and what a run shows, without the position
run_vars == <<caller, file_doc, supplied, by_ref, config, external_args,
              remaining_args, used_args, help1, command_dicts, command_tok,
              help2, command_dict, commands, commands_alias, stages_parsed,
              passthrough, help3, launched, stdout_list, stderr_list,
              exit_code_list, out, err, term, process_exit>>

-----------------------------------------------------------------------------
(* Python values *)

NoneV == [t |-> "none"]
Str(s) == [t |-> "str", s |-> s]
List(l) == [t |-> "list", l |-> l]
Dict(items) == [t |-> "dict", items |-> items]
Item(key, value) == [k |-> key, v |-> value]

\* an open readable text stream over a document, read up to a position
Stream(doc, pos) == [t |-> "stream", doc |-> doc, pos |-> pos]

\* an int
Number(n) == [t |-> "int", n |-> n]

\* A test that takes every value but None for true
is_not_none(v) == v # NoneV

\* bool(v)
Truthy(v) ==
    CASE v.t = "none" -> FALSE
      [] v.t = "str"  -> v.s # <<>>
      [] v.t = "list" -> v.l # <<>>
      [] v.t = "dict" -> v.items # <<>>
      [] v.t = "int"  -> v.n # 0
      [] v.t = "stream" -> TRUE

HasKey(d, key) == \E i \in 1..Len(d.items) : d.items[i].k = key

KeyIndex(d, key) == CHOOSE i \in 1..Len(d.items) : d.items[i].k = key

\* d.get(key, None)
Get(d, key) == IF HasKey(d, key) THEN d.items[KeyIndex(d, key)].v ELSE NoneV

\* d.update({key: value}): an existing key keeps its place, a new key goes last
Update(d, key, value) ==
    IF HasKey(d, key)
    THEN [d EXCEPT !.items[KeyIndex(d, key)].v = value]
    ELSE [d EXCEPT !.items = Append(@, Item(key, value))]

\* the node at a path of keys
RECURSIVE Lookup(_, _)
Lookup(node, path) ==
    IF path = <<>> THEN node
    ELSE IF node.t = "dict" /\ HasKey(node, Head(path))
         THEN Lookup(Get(node, Head(path)), Tail(path))
         ELSE NoneV

\* the tree with the node at a path replaced
RECURSIVE Store(_, _, _)
Store(node, path, value) ==
    IF path = <<>> THEN value
    ELSE [node EXCEPT !.items[KeyIndex(node, Head(path))].v =
              Store(@, Tail(path), value)]

-----------------------------------------------------------------------------
(* ConfigTree walker *)

\* A walker that also descends into the dicts that hold a command: what
\* _get_command_sections would collect without its else branch.
RECURSIVE walk_descending(_, _, _)
walk_descending(d, path, i) ==
    IF i > Len(d.items) THEN [command_dicts |-> <<>>, node |-> d]
    ELSE
      LET key == d.items[i].k
          value == d.items[i].v
      IN IF value.t = "dict"
         THEN LET sub == walk_descending(value, Append(path, key), 1)
                  found == Truthy(Get(value, "command"))
                  updated == IF found THEN Update(sub.node, "name", Str(<<key>>))
                             ELSE sub.node
                  rest == walk_descending([d EXCEPT !.items[i].v = updated], path, i + 1)
              IN [command_dicts |->
                      (IF found THEN <<Append(path, key)>> ELSE <<>>)
                          \o sub.command_dicts \o rest.command_dicts,
                  node |-> rest.node]
         ELSE walk_descending(d, path, i + 1)

\* A walker that collects the command dicts of a mapping before those of the
\* groups it holds: a breadth-first order.
RECURSIVE walk_commands_first(_, _, _)
walk_commands_first(d, path, i) ==
    IF i > Len(d.items) THEN [command_dicts |-> <<>>, node |-> d]
    ELSE
      LET key == d.items[i].k
          value == d.items[i].v
      IN IF value.t = "dict"
         THEN IF Truthy(Get(value, "command"))
              THEN LET updated == Update(value, "name", Str(<<key>>))
                       rest == walk_commands_first(
                                   [d EXCEPT !.items[i].v = updated], path, i + 1)
                   IN [command_dicts |-> <<Append(path, key)>> \o rest.command_dicts,
                       node |-> rest.node]
              ELSE LET sub == walk_commands_first(value, Append(path, key), 1)
                       rest == walk_commands_first(
                                   [d EXCEPT !.items[i].v = sub.node], path, i + 1)
                       IsShallow(q) == Len(q) = Len(path) + 1
                   IN [command_dicts |-> SelectSeq(rest.command_dicts, IsShallow)
                                            \o sub.command_dicts
                                            \o SelectSeq(rest.command_dicts,
                                                         LAMBDA q : ~IsShallow(q)),
                       node |-> rest.node]
         ELSE walk_commands_first(d, path, i + 1)

\* _get_command_sections, from item i of the dict d found at path: the paths
\* of the command dicts appended, in order, and d after the walk (each
\* command dict got 'name': key by value.update).
RECURSIVE get_command_sections_from(_, _, _)
get_command_sections_from(d, path, i) ==
    IF i > Len(d.items) THEN [command_dicts |-> <<>>, node |-> d]
    ELSE
      LET key == d.items[i].k
          value == d.items[i].v
      IN IF value.t = "dict"
         THEN IF Truthy(Get(value, "command"))
              THEN LET updated == Update(value, "name", Str(<<key>>))
                       rest == get_command_sections_from(
                                   [d EXCEPT !.items[i].v = updated], path, i + 1)
                   IN [command_dicts |-> <<Append(path, key)>> \o rest.command_dicts,
                       node |-> rest.node]
              ELSE LET sub == get_command_sections_from(value, Append(path, key), 1)
                       rest == get_command_sections_from(
                                   [d EXCEPT !.items[i].v = sub.node], path, i + 1)
                   IN [command_dicts |-> sub.command_dicts \o rest.command_dicts,
                       node |-> rest.node]
         ELSE get_command_sections_from(d, path, i + 1)

get_command_sections(parsed_config) ==
    get_command_sections_from(parsed_config, <<>>, 1)

-----------------------------------------------------------------------------
(* Strings and command-line tokens *)

\* A token or an option string is a TLA+ string; the characters of those
\* the parser inspects (anything starting with '-') are listed here.  Any
\* other token is one symbol that is not '-'.
CharTable ==
    [tok \in {"--help", "-h", "--h", "--he", "-c", "--config", "-x", "--"} |->
        CASE tok = "--help"   -> <<"-", "-", "h", "e", "l", "p">>
          [] tok = "--"       -> <<"-", "-">>
          [] tok = "-h"       -> <<"-", "h">>
          [] tok = "--h"      -> <<"-", "-", "h">>
          [] tok = "--he"     -> <<"-", "-", "h", "e">>
          [] tok = "-c"       -> <<"-", "c">>
          [] tok = "--config" -> <<"-", "-", "c", "o", "n", "f", "i", "g">>
          [] tok = "-x"       -> <<"-", "x">>]

Chars(tok) == IF tok \in DOMAIN CharTable THEN CharTable[tok] ELSE <<tok>>

\* s.startswith(p)
StartsWith(s, p) == Len(p) <= Len(s) /\ SubSeq(s, 1, Len(p)) = p

\* the elements of a sequence
Range(s) == {s[i] : i \in 1..Len(s)}

\* sep.join(parts), parts a sequence of strings (sequences of symbols)
RECURSIVE Join(_, _)
Join(sep, parts) ==
    IF parts = <<>> THEN <<>>
    ELSE IF Len(parts) = 1 THEN parts[1]
    ELSE parts[1] \o sep \o Join(sep, Tail(parts))

\* ' '.join(tokens) as a string: each token is one symbol of the result
JoinTokens(tokens) == Join(<<" ">>, [i \in 1..Len(tokens) |-> <<tokens[i]>>])

\* s.replace(old, new, 1): the first occurrence only
RECURSIVE ReplaceFirst(_, _, _)
ReplaceFirst(s, old, new) ==
    IF Len(s) < Len(old) THEN s
    ELSE IF StartsWith(s, old)
         THEN new \o SubSeq(s, Len(old) + 1, Len(s))
         ELSE <<Head(s)>> \o ReplaceFirst(Tail(s), old, new)

\* s.replace(old, new): every non-overlapping occurrence, left to right
RECURSIVE Replace(_, _, _)
Replace(s, old, new) ==
    IF Len(s) < Len(old) THEN s
    ELSE IF StartsWith(s, old)
         THEN new \o Replace(SubSeq(s, Len(old) + 1, Len(s)), old, new)
         ELSE <<Head(s)>> \o Replace(Tail(s), old, new)

\* old in s
Contains(s, old) ==
    \E i \in 1..(Len(s) - Len(old) + 1) : SubSeq(s, i, i + Len(old) - 1) = old

\* the placeholder '$@'
Placeholder == <<"$", "@">>

-----------------------------------------------------------------------------
(* argparse: ArgumentParser.parse_known_args, as far as the runner uses it *)

NoTok == "<None>"

\* Stages 2 and 3 declaring the long option only
HelpOptionsLong == {"--help"}

\* The parsers of the three stages: option strings with their destination,
\* the one positional (nargs '?' with choices, or nargs '*'), what is required.
HelpOptions1 == {"-h", "--help"}
HelpOptions == {"-h", "--help", "--h"}
ConfigOptions == {"-c", "--config"}

Parser(helps, configs, positional, choices) ==
    [helps |-> helps, configs |-> configs, positional |-> positional,
     choices |-> choices]

OptionStrings(parser) == parser.helps \cup parser.configs

\* ArgumentParser._parse_optional: "A" for a positional, the option string
\* matched (exactly or as an unambiguous abbreviation), "ambiguous", or "O"
\* for an unknown option, which parse_known_args leaves among the extras.
parse_optional(parser, tok) ==
    LET chars == Chars(tok)
        long == Len(chars) >= 2 /\ chars[2] = "-"
        matches ==
            IF long
            THEN {o \in OptionStrings(parser) : StartsWith(Chars(o), chars)}
            ELSE {o \in OptionStrings(parser) :
                     \/ Chars(o) = SubSeq(chars, 1, 2)
                     \/ StartsWith(Chars(o), chars)}
    IN IF chars[1] # "-" THEN "A"
       ELSE IF tok \in OptionStrings(parser) THEN tok
       ELSE IF Len(chars) = 1 THEN "A"
       ELSE IF Cardinality(matches) > 1 THEN "ambiguous"
       ELSE IF Cardinality(matches) = 1 THEN CHOOSE o \in matches : TRUE
       ELSE "O"

\* '--': every argument after the first one is a positional
Dashes == "--"

\* the end of the run of positional tokens that starts at i: the first
\* '--' and all that follows belong to it
RECURSIVE RunEnd(_, _, _)
RunEnd(parser, args, i) ==
    IF i > Len(args) THEN i
    ELSE IF args[i] = Dashes THEN Len(args) + 1
    ELSE IF parse_optional(parser, args[i]) = "A"
    THEN RunEnd(parser, args, i + 1)
    ELSE i

\* dashed: the first '--' has been met
ParseStart ==
    [error |-> "", help |-> FALSE, config_path |-> NoTok, command |-> NoTok,
     consumed |-> FALSE, dashed |-> FALSE, extras |-> <<>>]

\* parse_known_args from token i on.  error is "" or the message of
\* ArgumentParser.error (which prints the usage and exits with status 2).
\* The first '--' has the pattern '-': a positional takes it with its
\* value and drops it (_get_values), otherwise it is left among the extras.
RECURSIVE parse_from(_, _, _, _)
parse_from(parser, args, i, st) ==
    IF st.error # "" THEN st
    ELSE IF i > Len(args)
    THEN IF parser.configs # {} /\ st.config_path = NoTok
         THEN [st EXCEPT !.error = "required"]
         ELSE st
    ELSE
      LET tok == args[i]
          kind == IF st.dashed THEN "A"
                  ELSE IF tok = Dashes THEN "-"
                  ELSE parse_optional(parser, tok)
          dash_next == ~st.dashed /\ i < Len(args) /\ args[i + 1] = Dashes
      IN CASE kind = "A" ->
                  IF parser.positional = "?" /\ ~st.consumed
                  THEN parse_from(parser, args, IF dash_next THEN i + 2 ELSE i + 1,
                           [st EXCEPT !.consumed = TRUE, !.command = tok,
                                      !.dashed = @ \/ dash_next,
                                      !.error = IF tok \in parser.choices THEN ""
                                                ELSE "invalid choice"])
                  ELSE IF parser.positional = "*" /\ ~st.consumed
                  THEN parse_from(parser, args, RunEnd(parser, args, i),
                           [st EXCEPT !.consumed = TRUE])
                  ELSE parse_from(parser, args, i + 1,
                           [st EXCEPT !.extras = Append(@, tok)])
           [] kind = "-" ->
                  IF parser.positional = "?" /\ ~st.consumed
                  THEN IF i < Len(args)
                       THEN parse_from(parser, args, i + 2,
                                [st EXCEPT !.consumed = TRUE, !.dashed = TRUE,
                                           !.command = args[i + 1],
                                           !.error = IF args[i + 1] \in parser.choices
                                                     THEN "" ELSE "invalid choice"])
                       ELSE parse_from(parser, args, i + 1,
                                [st EXCEPT !.consumed = TRUE, !.dashed = TRUE])
                  ELSE IF parser.positional = "*" /\ ~st.consumed
                  THEN parse_from(parser, args, RunEnd(parser, args, i),
                           [st EXCEPT !.consumed = TRUE, !.dashed = TRUE])
                  ELSE parse_from(parser, args, i + 1,
                           [st EXCEPT !.dashed = TRUE, !.extras = Append(@, tok)])
           [] kind = "O" ->
                  parse_from(parser, args, i + 1, [st EXCEPT !.extras = Append(@, tok)])
           [] kind = "ambiguous" ->
                  [st EXCEPT !.error = "ambiguous option"]
           [] kind \in parser.helps ->
                  parse_from(parser, args, i + 1, [st EXCEPT !.help = TRUE])
           [] kind \in parser.configs ->
                  IF i < Len(args) /\ args[i + 1] # Dashes
                     /\ parse_optional(parser, args[i + 1]) = "A"
                  THEN parse_from(parser, args, i + 2,
                           [st EXCEPT !.config_path = args[i + 1]])
                  ELSE [st EXCEPT !.error = "expected one argument"]

parse_known_args(parser, args) == parse_from(parser, args, 1, ParseStart)


-----------------------------------------------------------------------------
(* Text written by argparse: a sequence of lines, a line a sequence of     *)
(* symbols.  The program name of a usage line is the symbol "PROG"; the    *)
(* value it stands for is kept beside the lines.                           *)

Spaces(n) == [i \in 1..n |-> " "]

Text(prog, lines) == [t |-> "text", prog |-> prog, lines |-> lines]

\* a string occurs in some line of what was printed
Mentions(text, s) ==
    text.t = "text" /\ \E i \in 1..Len(text.lines) : Contains(text.lines[i], s)

MetavarCommand == <<"C", "O", "M", "M", "A", "N", "D">>
MetavarPassthrough == <<"PASSTHROUGH">>

\* ArgumentParser.format_usage of the three subparsers
format_usage(parser) ==
    <<"usage:", " ", "PROG">>
      \o (IF parser.configs # {}
          THEN <<" ">> \o Chars("-c") \o <<" ", "YAML_CONFIG">> ELSE <<>>)
      \o <<" ", "[">> \o Chars("-h") \o <<"]">>
      \o (IF parser.positional = "?"
          THEN <<" ", "[">> \o MetavarCommand \o <<"]">> ELSE <<>>)
      \o (IF parser.positional = "*"
          THEN <<" ", "[">> \o MetavarPassthrough \o <<" ", "...", "]">> ELSE <<>>)

\* A help text of the usage line and the options only
format_help_options_only(parser) ==
    << format_usage(Parser(parser.helps, parser.configs, "none", {})), <<>>,
       <<"options:">>, <<>> >>

\* ArgumentParser.format_help().split('\n')
format_help(parser) ==
    <<format_usage(parser), <<>>>>
      \o (IF parser.positional = "?"
          THEN << <<"positional arguments:">>,
                  Spaces(2) \o MetavarCommand \o Spaces(10)
                      \o <<"These are available commands found in the config">>,
                  <<>> >>
          ELSE IF parser.positional = "*"
          THEN << <<"positional arguments:">>,
                  Spaces(2) \o MetavarPassthrough \o Spaces(6)
                      \o <<"All arguments here will be passed into the command">>,
                  <<>> >>
          ELSE <<>>)
      \o << <<"options:">> >>
      \o (IF parser.configs # {}
          THEN << Spaces(2) \o Chars("-c") \o <<" ", "YAML_CONFIG", ",", " ">>
                      \o Chars("--config") \o <<" ", "YAML_CONFIG">>,
                  Spaces(24) \o <<"Full path to yaml config file">> >>
          ELSE <<>>)
      \o << Spaces(2) \o Chars("-h") \o <<",", " ">> \o Chars("--help")
                \o (IF "--h" \in parser.helps
                    THEN <<",", " ">> \o Chars("--h") ELSE <<>>)
                \o Spaces(IF parser.configs # {} THEN 12 ELSE 2)
                \o (IF parser.positional = "*" THEN <<"Show this information">>
                    ELSE <<"Show information about the command">>),
            <<>> >>

\* what ArgumentParser.error writes on stderr before it exits with status 2,
\* split at its line ends
format_error(parser, error, tok) ==
    << format_usage(parser),
       <<"PROG", ":", " ", "error:", " ">>
         \o (CASE error = "required" ->
                    <<"the following arguments are required:", " ">>
                        \o Chars("-c") \o <<"/">> \o Chars("--config")
               [] error = "expected one argument" ->
                    <<"argument", " ">> \o Chars("-c") \o <<"/">> \o Chars("--config")
                        \o <<":", " ", "expected one argument">>
               [] error = "invalid choice" ->
                    <<"argument", " ">> \o MetavarCommand
                        \o <<":", " ", "invalid choice:", " ", tok>>
               [] OTHER -> <<error>>),
       <<>> >>

-----------------------------------------------------------------------------
(* Help renderer *)

IsSpace(c) == c = " "

\* the number of whitespace symbols a string starts with
RECURSIVE LeadingSpaces(_)
LeadingSpaces(line) ==
    IF line # <<>> /\ IsSpace(Head(line)) THEN 1 + LeadingSpaces(Tail(line)) ELSE 0

Drop(line, n) == SubSeq(line, n + 1, Len(line))

\* re.match(fr'^[\s]+{command_metavar}.*', line)
find_command_help_line(line, command_metavar) ==
    /\ LeadingSpaces(line) >= 1
    /\ StartsWith(Drop(line, LeadingSpaces(line)), command_metavar)

\* A match that needs no whitespace after the metavar: its end is the end
\* of the metavar when none follows
match_end_lenient(command_help, command_metavar) ==
    LET lead == LeadingSpaces(command_help)
        after == Drop(command_help, lead + Len(command_metavar))
    IN lead + Len(command_metavar) + LeadingSpaces(after)

\* the end of re.match(fr'[\s]+{command_metavar}[\s]+', command_help), or -1
match_end(command_help, command_metavar) ==
    LET lead == LeadingSpaces(command_help)
        after == Drop(command_help, lead + Len(command_metavar))
    IN IF find_command_help_line(command_help, command_metavar)
          /\ LeadingSpaces(after) >= 1
       THEN lead + Len(command_metavar) + LeadingSpaces(after)
       ELSE -1

\* A line of the Choices block that never shows the description
choice_line_name_only(indent, choice) == indent \o choice.name

\* one line of the Choices block: a tuple choice is (name, description)
choice_line(indent, choice) ==
    IF choice.description.t = "str"
    THEN indent \o choice.name \o <<" ", "-", " ">> \o choice.description.s
    ELSE indent \o choice.name

\* help_string.split('\n')
RECURSIVE split_lines(_)
split_lines(text) ==
    IF \A i \in 1..Len(text) : text[i] # "\n" THEN <<text>>
    ELSE LET i == CHOOSE i \in 1..Len(text) :
                      text[i] = "\n" /\ \A j \in 1..(i - 1) : text[j] # "\n"
         IN <<SubSeq(text, 1, i - 1)>> \o split_lines(SubSeq(text, i + 1, Len(text)))

\* '\n'.join(help_lines)
join_lines(help_lines) == Join(<<"\n">>, help_lines)

\* add_choices_to_help: raised is "" or the exception raised
add_choices_to_help(help_lines, command_metavar, choices) ==
    LET hits == {i \in 1..Len(help_lines) :
                    find_command_help_line(help_lines[i], command_metavar)}
    IN IF hits = {}
       THEN [raised |-> "IndexError", lines |-> <<>>]
       ELSE
         LET command_index == CHOOSE i \in hits : \A j \in hits : i <= j
             indent_index == match_end(help_lines[command_index], command_metavar)
         IN IF indent_index < 0
            THEN [raised |-> "ValueError", lines |-> <<>>]
            ELSE [raised |-> "",
                  lines |->
                      SubSeq(help_lines, 1, command_index)
                        \o << Spaces(indent_index) \o <<"Choices:">> >>
                        \o [i \in 1..Len(choices) |->
                               choice_line(Spaces(indent_index + 2), choices[i])]
                        \o SubSeq(help_lines, command_index + 1, Len(help_lines))]


-----------------------------------------------------------------------------
(* Inputs *)

\* Bounds of the model
MaxArgs == 3

\* The tokens a command line is made of: the help flags, an abbreviation of
\* --help, the config option, the name of the one file that exists, the two
\* command names of the configurations below, an option no parser declares.
Tokens == {"--help", "-h", "--he", "-c", "f", "hello", "echo_all", "-x"}

Args == UNION {[1..n -> Tokens] : n \in 0..MaxArgs}

\* Command lines
EchoHi == Str(<<"echo", " ", "hi">>)
EchoAll == Str(<<"echo", " ", "$", "@">>)
EchoTwice == Str(<<"$", "@", " ", "&&", " ", "echo", " ", "$", "@">>)
FalseLine == Str(<<"false">>)

\* The command values without and with the placeholder
HelloCommands == {EchoHi, List(<<FalseLine, EchoHi>>)}
EchoCommands == {EchoAll, List(<<EchoTwice, FalseLine>>), List(<<FalseLine, EchoAll>>)}

\* A configuration: a described command at the top, one in a nested section
Configuration(hello, echo_all) ==
    Dict(<< Item("hello", Dict(<< Item("command", hello),
                                  Item("description", Str(<<"print hello world">>)) >>)),
            Item("version", Str(<<"1">>)),
            Item("group", Dict(<< Item("echo_all",
                                       Dict(<< Item("command", echo_all) >>)) >>)) >>)

\* A configuration with two command nodes of one name, the nested one first
Homonyms ==
    Dict(<< Item("group", Dict(<< Item("hello",
                                       Dict(<< Item("command", FalseLine) >>)) >>)),
            Item("hello", Dict(<< Item("command", EchoAll) >>)) >>)

\* The dicts a caller supplies: the configurations, one with a name used
\* twice, and two without commands
Configs ==
    {Configuration(h, e) : h \in HelloCommands, e \in EchoCommands}
        \cup {Homonyms, Dict(<<>>), Dict(<< Item("version", Str(<<"1">>)) >>)}

DefaultDoc == Configuration(EchoHi, List(<<EchoTwice, FalseLine>>))

\* What the file "f" may hold: a configuration, an empty mapping, nothing
FileDocs == {DefaultDoc, Dict(<<>>), NoneV}

\* sys.argv[1:] of a program that calls run with no args of its own
HostArgv == <<>>

\* What a child process does: its two outputs and its exit status
ChildRuns ==
    { [stdout |-> <<"out", "\n">>, stderr |-> <<>>, returncode |-> 0],
      [stdout |-> <<>>, stderr |-> <<"oops", "\n">>, returncode |-> 1],
      [stdout |-> <<"out", "\n">>, stderr |-> <<"warn", "\n">>, returncode |-> 0] }

-----------------------------------------------------------------------------
(* YamlRunner *)

Program == "P"

\* The first run on a runner. strict: the argparse of the interpreter refuses
\* a second subparser of one name (Python 3.11 and later); earlier ones
\* replace the first silently.
FirstRun == [run |-> 1, strict |-> TRUE]

\* no configuration is being given in several forms
NoSupply == [way |-> "", held |-> NoneV, args |-> <<>>, given |-> <<>>,
             outcomes |-> <<>>]

\* no call of add_choices_to_help is looked at
NoRendering == [help_string |-> <<>>, command_metavar |-> <<>>, choices |-> <<>>,
                raised |-> "", result |-> <<>>]

\* the streams of a child process
Streams == {"stdout", "stderr"}

\* no call of _run_command is in progress
NoFrame == [pc |-> "loop", return_code |-> NoneV, stdout |-> NoneV, stderr |-> NoneV]

\* nothing written on sys.stdout and sys.stderr
NoOutput == [stdout |-> <<>>, stderr |-> <<>>]

NoPath == <<>>

Running == [kind |-> "running", code |-> 0, stage |-> "", exc |-> ""]
Returned == [kind |-> "return", code |-> 0, stage |-> "run_commands", exc |-> ""]
SystemExit(code, stage) == [kind |-> "exit", code |-> code, stage |-> stage, exc |-> ""]
Raised(exc, stage) == [kind |-> "raise", code |-> 1, stage |-> stage, exc |-> exc]

\* list.remove(x), when x is in the list
RemoveFirst(list, x) ==
    LET i == CHOOSE i \in 1..Len(list) :
                 list[i] = x /\ \A j \in 1..(i - 1) : list[j] # x
    IN SubSeq(list, 1, i - 1) \o SubSeq(list, i + 1, Len(list))

\* for unparsed_arg in remaining: all_args.remove(unparsed_arg)
RECURSIVE remove_unparsed(_, _)
remove_unparsed(all_args, remaining) ==
    IF remaining = <<>> THEN [raised |-> "", all_args |-> all_args]
    ELSE IF Head(remaining) \notin Range(all_args)
         THEN [raised |-> "ValueError", all_args |-> all_args]
         ELSE remove_unparsed(RemoveFirst(all_args, Head(remaining)), Tail(remaining))

\* _get_used_args_string: _used_args is a list of sets of tokens, the tokens
\* of one set having been added by one call, in the order of a Python set.
get_used_args_string(external, remaining, used) ==
    LET removed == IF remaining.t = "list"
                   THEN remove_unparsed(external, remaining.l)
                   ELSE [raised |-> "", all_args |-> external]
        difference == Range(removed.all_args)
                          \ UNION {used[i] : i \in 1..Len(used)}
    IN [raised |-> removed.raised,
        used_args |-> IF removed.raised = "" /\ difference # {}
                      THEN Append(used, difference) ELSE used]

\* A _set_help_arg that leaves the remaining args as they are
set_help_arg_dropped(external, remaining) ==
    [raised |-> "", remaining |-> remaining]

\* _set_help_arg
set_help_arg(external, remaining) ==
    IF "--help" \in Range(external)
    THEN [raised |-> "", remaining |-> Append(remaining, "--help")]
    ELSE IF "-h" \in Range(external)
    THEN [raised |-> "", remaining |-> Append(remaining, "-h")]
    ELSE IF "--h" \in Range(external)
    THEN [raised |-> "", remaining |-> Append(remaining, "--h")]
    ELSE [raised |-> "RuntimeError", remaining |-> remaining]

\* _set_config(config): what self._config becomes, or the exception raised.
\* document is what the file named "f" holds, the one file that exists; a
\* stream is read from its start (config.seek(0)).
set_config(given, document) ==
    CASE given.t = "str" ->
             IF given.s = <<"f">>
             THEN [raised |-> "", config |-> document, by_ref |-> FALSE]
             ELSE [raised |-> "FileNotFoundError", config |-> NoneV, by_ref |-> FALSE]
      [] given.t = "stream" ->
             [raised |-> "", config |-> given.doc, by_ref |-> FALSE]
      [] given.t = "dict" ->
             [raised |-> "", config |-> given, by_ref |-> TRUE]
      [] given.t = "none" ->
             [raised |-> "", config |-> NoneV, by_ref |-> FALSE]
      [] OTHER ->
             [raised |-> "TypeError", config |-> NoneV, by_ref |-> FALSE]

\* A _set_initial_args that never adds -c/--config
initial_args_help_only(cfg) ==
    Parser(HelpOptions1, {}, "none", {})

\* the parser of _set_initial_args
initial_args(cfg) ==
    Parser(HelpOptions1, IF cfg.t = "none" THEN ConfigOptions ELSE {}, "none", {})

\* command_dict.get('name') of the dict at a path
NameOf(cfg, path) == Get(Lookup(cfg, path), "name")

\* A COMMAND positional without choices
AnyToken(cfg, paths) == Tokens

\* the choices of the COMMAND positional: tokens equal to a name
ChoiceTokens(cfg, paths) ==
    {tok \in Tokens : \E i \in 1..Len(paths) : NameOf(cfg, paths[i]) = Str(<<tok>>)}

\* choice_info of _process_commands
choice_info(cfg, paths) ==
    [i \in 1..Len(paths) |->
        [name |-> NameOf(cfg, paths[i]).s,
         description |->
             IF Truthy(Get(Lookup(cfg, paths[i]), "description"))
             THEN Get(Lookup(cfg, paths[i]), "description") ELSE NoneV]]

\* A selection that takes the last node of the name instead of the first
last_named(cfg, paths, tok) ==
    LET hits == {i \in 1..Len(paths) : NameOf(cfg, paths[i]) = Str(<<tok>>)}
    IN IF hits = {} THEN NoPath
       ELSE paths[CHOOSE i \in hits : \A j \in hits : i >= j]

\* list(filter(lambda x: x.get('name') == command, command_dicts))[0]
first_named(cfg, paths, tok) ==
    LET hits == {i \in 1..Len(paths) : NameOf(cfg, paths[i]) = Str(<<tok>>)}
    IN IF hits = {} THEN NoPath
       ELSE paths[CHOOSE i \in hits : \A j \in hits : i <= j]

\* bool(filter(lambda x: '$@' in x, commands)): a filter object is truthy
\* whatever it would yield
filter_is_truthy(lines) == TRUE

\* A substitution that hands the leftover tokens to every line, appending
\* them to a line without the placeholder
substitute_appending(lines, remaining) ==
    [i \in 1..Len(lines) |->
        IF Contains(lines[i].s, Placeholder)
        THEN Str(Replace(lines[i].s, Placeholder, JoinTokens(remaining)))
        ELSE IF remaining = <<>> THEN lines[i]
        ELSE Str(lines[i].s \o <<" ">> \o JoinTokens(remaining))]

\* the loop of _process_command_params over self.commands
substitute(lines, remaining) ==
    [i \in 1..Len(lines) |->
        IF Contains(lines[i].s, Placeholder)
        THEN Str(Replace(lines[i].s, Placeholder, JoinTokens(remaining)))
        ELSE lines[i]]


-----------------------------------------------------------------------------
(* The run of a YamlRunner *)

\* YamlRunner(program) or YamlRunner(program, config): the CLI constructs it
\* without a configuration; a calling program owns a dict (or none) and may
\* hand it to the constructor.
Init ==
    /\ pc = "constructed"
    /\ caller \in {"cli", "api"}
    /\ supplied \in (IF caller = "cli" THEN {NoneV} ELSE {NoneV} \cup Configs)
    /\ file_doc \in (IF supplied = NoneV THEN FileDocs ELSE {DefaultDoc})
    /\ config \in {NoneV, supplied}
    /\ by_ref = (config # NoneV)
    /\ external_args = <<>>
    /\ remaining_args = NoneV
    /\ used_args = << {Program} >>
    /\ help1 = FALSE
    /\ command_dicts = <<>>
    /\ command_tok = NoTok
    /\ help2 = FALSE
    /\ command_dict = NoPath
    /\ commands = <<>>
    /\ commands_alias = FALSE
    /\ stages_parsed = <<>>
    /\ passthrough = FALSE
    /\ help3 = FALSE
    /\ launched = <<>>
    /\ stdout_list = <<>>
    /\ stderr_list = <<>>
    /\ exit_code_list = <<>>
    /\ out = NoneV
    /\ err = NoneV
    /\ term = Running
    /\ process_exit = -1
    /\ supply = NoSupply
    /\ rendering = NoRendering
    /\ frame = NoFrame
    /\ procs = <<>>
    /\ pipes = <<>>
    /\ drains = <<>>
    /\ results = <<>>
    /\ channels = NoOutput
    /\ reads = <<>>
    /\ session = FirstRun

\* An exception that is caught inside run: the run goes on to execution
swallow(how) ==
    /\ pc' = "run_commands"
    /\ term' = how

\* run ends in a stage: SystemExit or another exception leaves run
Terminate(how) ==
    /\ pc' = "raised"
    /\ term' = how

\* the constructor's or the config setter's _set_config(config), on a runner
\* that holds a configuration or none
SetConfig(cfg) ==
    /\ pc = "holding"
    /\ \E set \in {set_config(cfg, file_doc)} :
           IF set.raised # ""
           THEN /\ Terminate(Raised(set.raised, "set_config"))
                /\ UNCHANGED <<config, by_ref, supplied>>
           ELSE /\ config' = set.config
                /\ by_ref' = set.by_ref
                /\ supplied' = set.config
                /\ pc' = "constructed"
                /\ UNCHANGED term
    /\ UNCHANGED <<caller, file_doc, external_args, remaining_args, used_args,
                   help1, command_dicts, command_tok, help2, command_dict,
                   commands, commands_alias, stages_parsed, passthrough, help3,
                   launched, stdout_list, stderr_list, exit_code_list, out, err,
                   process_exit>>
    /\ UNCHANGED aside

\* run(config, args), up to the call of _get_pre_config_args
Run(cfg, args) ==
    /\ pc = "constructed"
    /\ \E set \in {set_config(cfg, file_doc)} :
           IF Truthy(cfg) /\ set.raised # ""
           THEN /\ Terminate(Raised(set.raised, "set_config"))
                /\ UNCHANGED <<config, by_ref, supplied, external_args, remaining_args>>
           ELSE /\ IF Truthy(cfg)
                   THEN /\ config' = set.config
                        /\ by_ref' = set.by_ref
                        /\ supplied' = set.config
                   ELSE UNCHANGED <<config, by_ref, supplied>>
                /\ external_args' = IF args # <<>> THEN args ELSE HostArgv
                /\ remaining_args' = NoneV
                /\ pc' = "pre_config"
                /\ UNCHANGED term
    /\ UNCHANGED <<caller, file_doc, used_args, help1, command_dicts,
                   command_tok, help2, command_dict, commands, commands_alias,
                   stages_parsed, passthrough, help3, launched, stdout_list,
                   stderr_list, exit_code_list, out, err, process_exit>>
    /\ UNCHANGED aside

\* _get_pre_config_args
PreConfig ==
    /\ pc = "pre_config"
    /\ \E default_args \in {parse_known_args(initial_args(config), external_args)} :
       \E used \in {get_used_args_string(external_args, remaining_args, used_args)} :
       LET parser == initial_args(config)
           exists == default_args.config_path = "f"
           loaded == IF config = NoneV THEN file_doc ELSE config
           helped == set_help_arg(external_args, default_args.extras)
       IN /\ used_args' = used.used_args
          /\ stages_parsed' = IF default_args.error # "" THEN stages_parsed
                              ELSE Append(stages_parsed, "pre_config")
          /\ IF default_args.error # ""
             THEN /\ err' = Text(used.used_args,
                                 format_error(parser, default_args.error, NoTok))
                  /\ Terminate(SystemExit(2, "pre_config"))
                  /\ UNCHANGED <<config, supplied, by_ref, remaining_args, help1, out>>
             ELSE
               /\ remaining_args' = List(IF default_args.help /\ Truthy(loaded)
                                            /\ (config # NoneV \/ exists)
                                            /\ helped.raised = ""
                                         THEN helped.remaining
                                         ELSE default_args.extras)
               /\ help1' = default_args.help
               /\ IF config = NoneV /\ ~exists
                  THEN /\ Terminate(Raised("FileNotFoundError", "pre_config"))
                       /\ UNCHANGED <<config, supplied, by_ref, out, err>>
                  ELSE
                    /\ config' = loaded
                    /\ supplied' = IF config = NoneV THEN file_doc ELSE supplied
                    /\ UNCHANGED <<by_ref, err>>
                    /\ IF default_args.help /\ ~Truthy(loaded)
                       THEN /\ out' = Text(used.used_args, format_help(parser))
                            /\ Terminate(SystemExit(0, "pre_config"))
                       ELSE IF default_args.help /\ helped.raised # ""
                       THEN /\ Terminate(Raised(helped.raised, "pre_config"))
                            /\ UNCHANGED out
                       ELSE /\ pc' = "process_commands"
                            /\ UNCHANGED <<out, term>>
    /\ UNCHANGED <<caller, file_doc, external_args, command_dicts, command_tok,
                   help2, command_dict, commands, commands_alias,
                   passthrough, help3, launched, stdout_list, stderr_list,
                   exit_code_list, process_exit>>
    /\ UNCHANGED aside

\* _process_commands
ProcessCommands ==
    /\ pc = "process_commands"
    /\ IF config.t # "dict"
       THEN /\ Terminate(Raised("AttributeError", "process_commands"))
            /\ UNCHANGED <<config, used_args, remaining_args, command_dicts,
                           command_tok, help2, command_dict, stages_parsed, out, err>>
       ELSE
         \E walk \in {get_command_sections(config)} :
         \E used \in {get_used_args_string(external_args, remaining_args, used_args)} :
         \E subparser \in {Parser(HelpOptions, {}, "?",
                                  ChoiceTokens(walk.node, walk.command_dicts))} :
         \E parsed \in {parse_known_args(subparser, remaining_args.l)} :
         LET dicts == walk.command_dicts
             help_message == add_choices_to_help(format_help(subparser), MetavarCommand,
                                                 choice_info(walk.node, dicts))
             helped == set_help_arg(external_args, parsed.extras)
         IN /\ config' = walk.node
            /\ command_dicts' = dicts
            /\ used_args' = used.used_args
            /\ stages_parsed' = IF used.raised # "" \/ parsed.error # "" THEN stages_parsed
                                ELSE Append(stages_parsed, "process_commands")
            /\ IF used.raised # ""
               THEN /\ Terminate(Raised(used.raised, "process_commands"))
                    /\ UNCHANGED <<remaining_args, command_tok, help2, command_dict,
                                   out, err>>
               ELSE IF parsed.error # ""
               THEN /\ err' = Text(used.used_args,
                                   format_error(subparser, parsed.error, parsed.command))
                    /\ command_tok' = parsed.command
                    /\ Terminate(SystemExit(2, "process_commands"))
                    /\ UNCHANGED <<remaining_args, help2, command_dict, out>>
               ELSE
                 /\ command_tok' = parsed.command
                 /\ help2' = parsed.help
                 /\ UNCHANGED err
                 /\ IF parsed.command = NoTok
                    THEN /\ remaining_args' = List(parsed.extras)
                         /\ UNCHANGED command_dict
                         /\ IF help_message.raised # ""
                            THEN /\ Terminate(Raised(help_message.raised,
                                                     "process_commands"))
                                 /\ UNCHANGED out
                            ELSE /\ out' = Text(used.used_args,
                                                help_message.lines \o << <<>> >>)
                                 /\ Terminate(SystemExit(0, "process_commands"))
                    ELSE IF parsed.help /\ helped.raised # ""
                    THEN /\ remaining_args' = List(parsed.extras)
                         /\ Terminate(Raised(helped.raised, "process_commands"))
                         /\ UNCHANGED <<command_dict, out>>
                    ELSE /\ remaining_args' = List(IF parsed.help THEN helped.remaining
                                                   ELSE parsed.extras)
                         /\ command_dict' = first_named(walk.node, dicts, parsed.command)
                         /\ UNCHANGED out
                         /\ IF first_named(walk.node, dicts, parsed.command) = NoPath
                            THEN Terminate(Raised("IndexError", "process_commands"))
                            ELSE pc' = "process_command_config" /\ UNCHANGED term
    /\ UNCHANGED <<caller, file_doc, supplied, by_ref, external_args, help1,
                   commands, commands_alias, passthrough, help3, launched,
                   stdout_list, stderr_list, exit_code_list, process_exit>>
    /\ UNCHANGED aside


\* A str taken as the sequence of lines: one line for each of its symbols
command_lines_unwrapped(command) ==
    IF command.t = "list" THEN command.l
    ELSE [i \in 1..Len(command.s) |-> Str(<<command.s[i]>>)]

\* self.commands of _process_command_config: the list as it is, a str as a
\* list of one line
command_lines(command) ==
    IF command.t = "list" THEN command.l ELSE <<command>>

\* _process_command_config, with the _process_command_params it calls
ProcessCommandConfig ==
    /\ pc = "process_command_config"
    /\ \E command \in {Get(Lookup(config, command_dict), "command")} :
       \E used \in {get_used_args_string(external_args, remaining_args, used_args)} :
       LET lines == command_lines(command)
           alias == command.t = "list"
           pass == filter_is_truthy(lines)
           subparser == Parser(HelpOptions, {}, IF pass THEN "*" ELSE "none", {})
           command_params == parse_known_args(subparser, remaining_args.l)
           replaced == substitute(lines, remaining_args.l)
       IN /\ stages_parsed' = IF used.raised # "" \/ command_params.error # ""
                              THEN stages_parsed
                              ELSE Append(stages_parsed, "process_command_params")
          /\ passthrough' = pass
          /\ commands_alias' = alias
          /\ used_args' = used.used_args
          /\ IF used.raised # ""
             THEN /\ commands' = lines
                  /\ Terminate(Raised(used.raised, "process_command_params"))
                  /\ UNCHANGED <<config, help3, out, err>>
             ELSE IF command_params.error # ""
             THEN /\ commands' = lines
                  /\ err' = Text(used.used_args,
                                 format_error(subparser, command_params.error, NoTok))
                  /\ Terminate(SystemExit(2, "process_command_params"))
                  /\ UNCHANGED <<config, help3, out>>
             ELSE
               /\ commands' = replaced
               /\ config' = IF alias
                            THEN Store(config, Append(command_dict, "command"),
                                       List(replaced))
                            ELSE config
               /\ help3' = command_params.help
               /\ UNCHANGED err
               /\ IF command_params.help
                  THEN /\ out' = Text(used.used_args, format_help(subparser))
                       /\ Terminate(SystemExit(0, "process_command_params"))
                  ELSE /\ pc' = "run_commands"
                       /\ UNCHANGED <<out, term>>
    /\ UNCHANGED <<caller, file_doc, supplied, by_ref, external_args,
                   remaining_args, help1, command_dicts, command_tok, help2,
                   command_dict, launched, stdout_list, stderr_list,
                   exit_code_list, process_exit>>
    /\ UNCHANGED aside

\* A loop that ends at the first line whose exit status is not 0
stops_at_failure(exit_codes, lines) ==
    /\ Len(exit_codes) < Len(lines)
    /\ \A i \in 1..Len(exit_codes) : exit_codes[i] = 0

\* for command in self.commands: there is a next line to run
loop_has_next(exit_codes, lines) == Len(exit_codes) < Len(lines)

\* One turn of the loop of _run_commands: _run_command(command) launches the
\* line in a shell, waits for it and hands back what it wrote and its status.
RunCommand(child) ==
    /\ pc = "run_commands"
    /\ loop_has_next(exit_code_list, commands)
    /\ LET command == commands[Len(exit_code_list) + 1]
       IN launched' = Append(launched, [command |-> command, child |-> child])
    /\ stdout_list' = Append(stdout_list, child.stdout)
    /\ stderr_list' = Append(stderr_list, child.stderr)
    /\ exit_code_list' = Append(exit_code_list, child.returncode)
    /\ UNCHANGED <<pc, caller, file_doc, supplied, by_ref, config, external_args,
                   remaining_args, used_args, help1, command_dicts, command_tok,
                   help2, command_dict, commands, commands_alias, stages_parsed,
                   passthrough, help3, out, err, term, process_exit>>
    /\ UNCHANGED aside

\* the return of _run_commands, and of run
RunReturn ==
    /\ pc = "run_commands"
    /\ ~loop_has_next(exit_code_list, commands)
    /\ pc' = "returned"
    /\ term' = Returned
    /\ UNCHANGED <<caller, file_doc, supplied, by_ref, config, external_args,
                   remaining_args, used_args, help1, command_dicts, command_tok,
                   help2, command_dict, commands, commands_alias, stages_parsed,
                   passthrough, help3, launched, stdout_list, stderr_list,
                   exit_code_list, out, err, process_exit>>
    /\ UNCHANGED aside

\* the exit status examples/yaml_runner_run.py hands to sys.exit
cli_status(exit_codes) == exit_codes[1]

\* examples/yaml_runner_run.py: sys.exit(YAML_RUNNER.run()[2][0]); a
\* SystemExit raised by run ends the process with its code, any other
\* exception with status 1.
CliExit ==
    /\ caller = "cli"
    /\ pc \in {"returned", "raised"}
    /\ process_exit' = IF term.kind = "return" THEN cli_status(exit_code_list)
                       ELSE term.code
    /\ pc' = "exited"
    /\ UNCHANGED <<caller, file_doc, supplied, by_ref, config, external_args,
                   remaining_args, used_args, help1, command_dicts, command_tok,
                   help2, command_dict, commands, commands_alias, stages_parsed,
                   passthrough, help3, launched, stdout_list, stderr_list,
                   exit_code_list, out, err, term>>
    /\ UNCHANGED aside

Next ==
    \/ /\ pc = "constructed"
       /\ \E args \in Args :
              \E cfg \in (IF caller = "cli" THEN {NoneV} ELSE {NoneV, supplied}) :
                  Run(cfg, args)
    \/ PreConfig
    \/ ProcessCommands
    \/ ProcessCommandConfig
    \/ /\ pc = "run_commands"
       /\ \E child \in ChildRuns : RunCommand(child)
    \/ RunReturn
    \/ CliExit

Spec == Init /\ [][Next]_vars

-----------------------------------------------------------------------------
(* The walker on its own: _get_command_sections applied to a family of     *)
(* configuration trees.                                                     *)

ScalarValue == Str(<<"1">>)

\* values under a key that are not dicts: a scalar, and a list holding a dict
NonDicts == {ScalarValue, List(<<Dict(<<Item("command", EchoHi)>>)>>)}

\* the 'command' entry of a dict: absent, falsy, a line, a list of lines
CommandEntries ==
    {<<>>, <<Item("command", Str(<<>>))>>, <<Item("command", EchoHi)>>,
     <<Item("command", List(<<EchoAll, FalseLine>>))>>}

\* a 'name' entry that the dict may already hold
NameEntries == {<<>>, <<Item("name", Str(<<"other">>))>>}

LeafDicts == {Dict(c \o n) : c \in CommandEntries, n \in NameEntries}

InnerDicts ==
    {Dict(c \o <<Item("c", v)>>) : c \in CommandEntries, v \in LeafDicts \cup NonDicts}

Subtrees == LeafDicts \cup InnerDicts \cup NonDicts

RootEntries == {<<>>, <<Item("command", EchoHi)>>}

\* the orders in which a mapping may hold two keys
KeyOrders(k1, k2) == {<<k1, k2>>, <<k2, k1>>}

\* what a group holds under a key: a command dict, a dict without command,
\* a scalar
GroupMembers == {Dict(<<Item("command", EchoHi)>>), Dict(<<>>), ScalarValue}

\* groups of two keys, in either order
Groups ==
    {Dict(<<Item(ks[1], x), Item(ks[2], y)>>) :
        ks \in KeyOrders("b", "c"), x \in GroupMembers, y \in GroupMembers}

\* trees of two keys in either order, over groups and group members
OrderedTrees ==
    {Dict(<<Item(ks[1], x), Item(ks[2], y)>>) :
        ks \in KeyOrders("a", "c"),
        x \in Groups \cup GroupMembers, y \in Groups \cup GroupMembers}

Trees ==
    {Dict(r \o <<Item("a", x)>>) : r \in RootEntries, x \in Subtrees}
        \cup {Dict(r \o <<Item("a", x), Item("c", y)>>) :
                  r \in RootEntries, x \in Subtrees, y \in Subtrees}
        \cup OrderedTrees

InitWalk ==
    /\ pc = "walk"
    /\ caller = "api"
    /\ file_doc = NoneV
    /\ supplied \in Trees
    /\ config = supplied
    /\ by_ref = TRUE
    /\ external_args = <<>>
    /\ remaining_args = NoneV
    /\ used_args = <<{Program}>>
    /\ help1 = FALSE
    /\ command_dicts = <<>>
    /\ command_tok = NoTok
    /\ help2 = FALSE
    /\ command_dict = NoPath
    /\ commands = <<>>
    /\ commands_alias = FALSE
    /\ stages_parsed = <<>>
    /\ passthrough = FALSE
    /\ help3 = FALSE
    /\ launched = <<>>
    /\ stdout_list = <<>>
    /\ stderr_list = <<>>
    /\ exit_code_list = <<>>
    /\ out = NoneV
    /\ err = NoneV
    /\ term = Running
    /\ process_exit = -1
    /\ supply = NoSupply
    /\ rendering = NoRendering
    /\ frame = NoFrame
    /\ procs = <<>>
    /\ pipes = <<>>
    /\ drains = <<>>
    /\ results = <<>>
    /\ channels = NoOutput
    /\ reads = <<>>
    /\ session = FirstRun

\* command_dicts = self._get_command_sections(self._config)
Walk ==
    /\ pc = "walk"
    /\ \E walk \in {get_command_sections(config)} :
           /\ command_dicts' = walk.command_dicts
           /\ config' = walk.node
    /\ pc' = "walked"
    /\ UNCHANGED <<caller, file_doc, supplied, by_ref, external_args,
                   remaining_args, used_args, help1, command_tok, help2,
                   command_dict, commands, commands_alias, stages_parsed,
                   passthrough, help3, launched, stdout_list, stderr_list,
                   exit_code_list, out, err, term, process_exit>>
    /\ UNCHANGED aside

NextWalk == Walk

SpecWalk == InitWalk /\ [][NextWalk]_vars

-----------------------------------------------------------------------------
(* One configuration given in three forms: as a dict, as the path of the   *)
(* file that holds it, as an open stream over it; and values of a wrong    *)
(* type given as a configuration.  Each form is given to a runner of its   *)
(* own, by the constructor or config setter or by run, and run to its end  *)
(* with the same arguments.                                                *)

MaxSupplyArgs == 2

SupplyArgs == UNION {[1..n -> Tokens] : n \in 0..MaxSupplyArgs}

\* the documents given
SupplyDocs == {DefaultDoc, Dict(<<>>), Dict(<< Item("version", Str(<<"1">>)) >>)}

\* the configuration a runner may hold before another is given to it
HeldDoc == Configuration(EchoHi, EchoAll)

\* values that are no str, no stream and no dict
WrongTypes == {Number(0), Number(5), List(<<>>)}

\* the three forms of a document; the stream has been read up to pos
ThreeForms(doc, pos) == <<doc, Str(<<"f">>), Stream(doc, pos)>>

\* what a run that has ended shows: how it ended, the command dicts the
\* walker returned, the lines handed to the shell
Outcome ==
    [term |-> term,
     specs |-> [i \in 1..Len(command_dicts) |-> Lookup(config, command_dicts[i])],
     lines |-> [i \in 1..Len(launched) |-> launched[i].command]]

InitSupply ==
    /\ \E doc \in SupplyDocs, args \in SupplyArgs, way \in {"set", "run"},
          held \in {NoneV, HeldDoc} :
          /\ file_doc = doc
          /\ \E given \in {ThreeForms(doc, pos) : pos \in 0..1}
                              \cup {<<w>> : w \in WrongTypes} :
                 supply = [way |-> way, held |-> held, args |-> args,
                           given |-> given, outcomes |-> <<>>]
    /\ rendering = NoRendering
    /\ frame = NoFrame
    /\ procs = <<>>
    /\ pipes = <<>>
    /\ drains = <<>>
    /\ results = <<>>
    /\ channels = NoOutput
    /\ reads = <<>>
    /\ session = FirstRun
    /\ pc = IF supply.way = "set" THEN "holding" ELSE "constructed"
    /\ caller = "api"
    /\ supplied = supply.held
    /\ config = supply.held
    /\ by_ref = (supply.held # NoneV)
    /\ external_args = <<>>
    /\ remaining_args = NoneV
    /\ used_args = << {Program} >>
    /\ help1 = FALSE
    /\ command_dicts = <<>>
    /\ command_tok = NoTok
    /\ help2 = FALSE
    /\ command_dict = NoPath
    /\ commands = <<>>
    /\ commands_alias = FALSE
    /\ stages_parsed = <<>>
    /\ passthrough = FALSE
    /\ help3 = FALSE
    /\ launched = <<>>
    /\ stdout_list = <<>>
    /\ stderr_list = <<>>
    /\ exit_code_list = <<>>
    /\ out = NoneV
    /\ err = NoneV
    /\ term = Running
    /\ process_exit = -1

\* The run of one form has ended: what it shows is kept, and the next form
\* is given to a new runner that holds what the first one held.
NextForm ==
    /\ pc \in {"returned", "raised"}
    /\ supply.given # <<>>
    /\ supply' = [supply EXCEPT !.given = Tail(@), !.outcomes = Append(@, Outcome)]
    /\ pc' = IF Tail(supply.given) = <<>> THEN "compared"
             ELSE IF supply.way = "set" THEN "holding" ELSE "constructed"
    /\ supplied' = supply.held
    /\ config' = supply.held
    /\ by_ref' = (supply.held # NoneV)
    /\ external_args' = <<>>
    /\ remaining_args' = NoneV
    /\ used_args' = << {Program} >>
    /\ help1' = FALSE
    /\ command_dicts' = <<>>
    /\ command_tok' = NoTok
    /\ help2' = FALSE
    /\ command_dict' = NoPath
    /\ commands' = <<>>
    /\ commands_alias' = FALSE
    /\ stages_parsed' = <<>>
    /\ passthrough' = FALSE
    /\ help3' = FALSE
    /\ launched' = <<>>
    /\ stdout_list' = <<>>
    /\ stderr_list' = <<>>
    /\ exit_code_list' = <<>>
    /\ out' = NoneV
    /\ err' = NoneV
    /\ term' = Running
    /\ UNCHANGED <<caller, file_doc, process_exit>>
    /\ UNCHANGED rendering
    /\ UNCHANGED child_vars
    /\ UNCHANGED session

NextSupply ==
    \/ /\ pc = "holding"
       /\ SetConfig(Head(supply.given))
    \/ /\ pc = "constructed"
       /\ Run(IF supply.way = "run" THEN Head(supply.given) ELSE NoneV, supply.args)
    \/ PreConfig
    \/ ProcessCommands
    \/ ProcessCommandConfig
    \/ /\ pc = "run_commands"
       /\ \E child \in ChildRuns : RunCommand(child)
    \/ RunReturn
    \/ NextForm

SpecSupply == InitSupply /\ [][NextSupply]_vars

-----------------------------------------------------------------------------
(* add_choices_to_help on its own, applied to help strings made of the     *)
(* lines below and to lists of choices.                                    *)

MaxHelpLines == 3
MaxChoices == 2

\* the lines of a help string: a usage line, the line of the positional
\* with its description, without one, with a description after one space
\* and a deeper indent, the line of a positional whose name starts with the
\* metavar, the metavar at the start of a line, an empty line, an option
HelpLines ==
    { <<"usage:", " ", "P", " ", "[">> \o MetavarCommand \o <<"]">>,
      <<" ", " ">> \o MetavarCommand \o <<" ", " ", " ", "the", " ", "command">>,
      <<" ", " ">> \o MetavarCommand,
      <<" ", " ", " ">> \o MetavarCommand \o <<" ", "other">>,
      <<" ", " ">> \o MetavarCommand \o <<"S", " ", " ", "more">>,
      MetavarCommand \o <<" ", " ", "x">>,
      <<>>,
      <<" ", " ", "-h", " ", " ", "help">> }

HelpStrings ==
    {join_lines(ls) : ls \in UNION {[1..n -> HelpLines] : n \in 1..MaxHelpLines}}

\* a choice: a name alone, or a name and a description; a description may
\* be empty or hold a line break (a YAML block scalar)
Choice(name, description) == [name |-> name, description |-> description]

ChoiceValues ==
    { Choice(<<"hello">>, NoneV),
      Choice(<<"echo_all">>, Str(<<"print", " ", "all">>)),
      Choice(<<"empty">>, Str(<<>>)),
      Choice(<<"long">>, Str(<<"first", "\n", "second">>)) }

ChoiceLists == UNION {[1..n -> ChoiceValues] : n \in 0..MaxChoices}

InitHelp ==
    /\ pc = "render"
    /\ \E help_string \in HelpStrings, choices \in ChoiceLists :
           rendering = [help_string |-> help_string,
                        command_metavar |-> MetavarCommand,
                        choices |-> choices, raised |-> "", result |-> <<>>]
    /\ caller = "api"
    /\ file_doc = NoneV
    /\ supplied = NoneV
    /\ config = NoneV
    /\ by_ref = FALSE
    /\ external_args = <<>>
    /\ remaining_args = NoneV
    /\ used_args = << {Program} >>
    /\ help1 = FALSE
    /\ command_dicts = <<>>
    /\ command_tok = NoTok
    /\ help2 = FALSE
    /\ command_dict = NoPath
    /\ commands = <<>>
    /\ commands_alias = FALSE
    /\ stages_parsed = <<>>
    /\ passthrough = FALSE
    /\ help3 = FALSE
    /\ launched = <<>>
    /\ stdout_list = <<>>
    /\ stderr_list = <<>>
    /\ exit_code_list = <<>>
    /\ out = NoneV
    /\ err = NoneV
    /\ term = Running
    /\ process_exit = -1
    /\ supply = NoSupply
    /\ frame = NoFrame
    /\ procs = <<>>
    /\ pipes = <<>>
    /\ drains = <<>>
    /\ results = <<>>
    /\ channels = NoOutput
    /\ reads = <<>>
    /\ session = FirstRun

\* add_choices_to_help(help_string, command_metavar, choices)
Render ==
    /\ pc = "render"
    /\ \E added \in {add_choices_to_help(split_lines(rendering.help_string),
                                         rendering.command_metavar,
                                         rendering.choices)} :
           /\ rendering' = [rendering EXCEPT
                               !.raised = added.raised,
                               !.result = IF added.raised = ""
                                          THEN join_lines(added.lines) ELSE <<>>]
           /\ pc' = IF added.raised = "" THEN "rendered" ELSE "render_raised"
    /\ UNCHANGED run_vars
    /\ UNCHANGED supply
    /\ UNCHANGED child_vars
    /\ UNCHANGED session

NextHelp == Render

SpecHelp == InitHelp /\ [][NextHelp]_vars

-----------------------------------------------------------------------------
(* _run_command step by step: the child process, the two pipes, the two    *)
(* drain tasks running _read_stream, and the parent, inside the loop of    *)
(* _run_commands.  A child is the script its shell runs: writes of single  *)
(* bytes to its stdout and stderr, closes of a stream, steps without       *)
(* output, then its exit.                                                  *)

MaxLines == 2
PipeCapacity == 2

\* a byte that is not valid in the encoding of the parent's locale
Undecodable == "0xff"

Write(stream, byte) == [op |-> "write", stream |-> stream, byte |-> byte]
Close(stream) == [op |-> "close", stream |-> stream, byte |-> ""]
Work == [op |-> "work", stream |-> "", byte |-> ""]

Script(ops, returncode) == [ops |-> ops, returncode |-> returncode]

\* a child that writes nothing and fails; one line on stdout; output on both
\* streams, the last line of stdout without a newline; more bytes on stderr
\* than the pipe holds; carriage returns; a byte that cannot be decoded, on
\* its own and followed by further output; a child that closes both streams
\* and goes on working
Scripts ==
    { Script(<<>>, 1),
      Script(<<Write("stdout", "a"), Write("stdout", "\n")>>, 0),
      Script(<<Write("stdout", "a"), Write("stderr", "b"), Write("stderr", "\n"),
               Write("stdout", "c")>>, 1),
      Script(<<Write("stderr", "a"), Write("stderr", "b"), Write("stderr", "c"),
               Write("stdout", "\n")>>, 0),
      Script(<<Write("stdout", "a"), Write("stdout", "\r"), Write("stdout", "\n"),
               Write("stdout", "\r")>>, 0),
      Script(<<Write("stdout", Undecodable), Write("stderr", "e"),
               Write("stderr", "\n")>>, 0),
      Script(<<Write("stdout", Undecodable), Write("stdout", "a"),
               Write("stdout", "b"), Write("stdout", "c")>>, 0),
      Script(<<Close("stdout"), Close("stderr"), Work>>, 0) }

\* the bytes a script writes to a stream, in order
RECURSIVE written(_, _)
written(ops, stream) ==
    IF ops = <<>> THEN <<>>
    ELSE (IF Head(ops).op = "write" /\ Head(ops).stream = stream
          THEN <<Head(ops).byte>> ELSE <<>>) \o written(Tail(ops), stream)

\* a line of self.commands: what it does is the script its shell runs
ShellLine == Str(<<"sh", " ", "script">>)

ChildLines == UNION {[1..n -> {ShellLine}] : n \in 1..MaxLines}

\* a pipe: the bytes written and not yet read, and whether a write end is open
NewPipe == [buf |-> <<>>, open |-> TRUE]

\* threading.Thread(target=_read_stream, args=(stream, target, result_list)):
\* the position of the task in _read_stream, the text its stream has decoded
\* and not yet returned, whether the stream has met the end of the pipe, and
\* the locals chunk and data
NewThread(target) ==
    [pc |-> "new", target |-> target, pending |-> <<>>, eof |-> FALSE,
     chunk |-> <<>>, data |-> <<>>]

\* the bytes can be decoded
decodable(bytes) == \A i \in 1..Len(bytes) : bytes[i] # Undecodable

\* stream.readline() of a text stream with universal newlines, on the text
\* decoded so far: the next line with its end ('\n', '\r\n' or '\r') turned
\* into '\n'; at the end of the stream, what is left; found is FALSE when
\* more of the pipe has to be read first
readline(pending, eof) ==
    LET ends == {i \in 1..Len(pending) : pending[i] \in {"\n", "\r"}}
    IN IF ends = {}
       THEN [found |-> eof, chunk |-> pending, rest |-> <<>>]
       ELSE LET i == CHOOSE i \in ends : \A j \in ends : i <= j
                crlf == /\ pending[i] = "\r"
                        /\ i < Len(pending)
                        /\ pending[i + 1] = "\n"
                n == IF crlf THEN i + 1 ELSE i
            IN IF pending[i] = "\r" /\ i = Len(pending) /\ ~eof
               THEN [found |-> FALSE, chunk |-> <<>>, rest |-> pending]
               ELSE [found |-> TRUE,
                     chunk |-> SubSeq(pending, 1, i - 1) \o <<"\n">>,
                     rest |-> SubSeq(pending, n + 1, Len(pending))]

\* A join that returns as soon as the task has been started
thread_started(thread) == thread.pc # "new"

\* Thread.join() returns: the task has ended, by return or by an exception
thread_ended(thread) == thread.pc \in {"done", "failed"}

\* A wait that returns while the child is still running
process_launched(proc) == proc.state \in {"running", "exited"}

\* proc.wait() returns: the child process has exited
process_exited(proc) == proc.state = "exited"

\* the call of _run_command in progress is the last one started
Current == Len(procs)

InitChild ==
    /\ pc = "run_commands"
    /\ commands \in ChildLines
    /\ caller = "api"
    /\ file_doc = NoneV
    /\ supplied = NoneV
    /\ config = NoneV
    /\ by_ref = FALSE
    /\ external_args = <<>>
    /\ remaining_args = List(<<>>)
    /\ used_args = << {Program} >>
    /\ help1 = FALSE
    /\ command_dicts = <<>>
    /\ command_tok = NoTok
    /\ help2 = FALSE
    /\ command_dict = NoPath
    /\ commands_alias = FALSE
    /\ stages_parsed = <<>>
    /\ passthrough = FALSE
    /\ help3 = FALSE
    /\ launched = <<>>
    /\ stdout_list = <<>>
    /\ stderr_list = <<>>
    /\ exit_code_list = <<>>
    /\ out = NoneV
    /\ err = NoneV
    /\ term = Running
    /\ process_exit = -1
    /\ supply = NoSupply
    /\ rendering = NoRendering
    /\ frame = NoFrame
    /\ procs = <<>>
    /\ pipes = <<>>
    /\ drains = <<>>
    /\ results = <<>>
    /\ channels = NoOutput
    /\ reads = <<>>
    /\ session = FirstRun

\* what the actions of _run_command leave alone
run_command_unchanged ==
    UNCHANGED <<caller, file_doc, supplied, by_ref, config, external_args,
                remaining_args, used_args, help1, command_dicts, command_tok,
                help2, command_dict, commands, commands_alias, stages_parsed,
                passthrough, help3, out, err, process_exit, supply, rendering,
                session>>

\* for command in self.commands: _run_command(command) up to the creation of
\* the two threads: Popen starts the shell, which runs one of the scripts
Popen ==
    /\ pc = "run_commands"
    /\ frame.pc = "loop"
    /\ loop_has_next(exit_code_list, commands)
    /\ \E script \in Scripts :
         /\ procs' = Append(procs, [state |-> "running", ops |-> script.ops,
                                    returncode |-> script.returncode])
         /\ launched' = Append(launched,
                [command |-> commands[Len(exit_code_list) + 1],
                 child |-> [stdout |-> written(script.ops, "stdout"),
                            stderr |-> written(script.ops, "stderr"),
                            returncode |-> script.returncode]])
    /\ pipes' = Append(pipes, [stdout |-> NewPipe, stderr |-> NewPipe])
    /\ drains' = Append(drains, [stdout |-> NewThread("stdout"),
                                 stderr |-> NewThread("stderr")])
    /\ results' = Append(results, [stdout |-> <<>>, stderr |-> <<>>])
    /\ frame' = [NoFrame EXCEPT !.pc = "start_stdout"]
    /\ UNCHANGED <<pc, term, stdout_list, stderr_list, exit_code_list, channels, reads>>
    /\ run_command_unchanged

\* stdout_thread.start(), stderr_thread.start()
Start(stream) ==
    /\ pc = "run_commands"
    /\ frame.pc = IF stream = "stdout" THEN "start_stdout" ELSE "start_stderr"
    /\ drains' = [drains EXCEPT ![Current][stream].pc = "readline"]
    /\ frame' = [frame EXCEPT !.pc = IF stream = "stdout" THEN "start_stderr" ELSE "wait"]
    /\ UNCHANGED <<pc, term, launched, stdout_list, stderr_list, exit_code_list,
                   procs, pipes, results, channels, reads>>
    /\ run_command_unchanged

\* return_code = proc.wait()
Wait ==
    /\ pc = "run_commands"
    /\ frame.pc = "wait"
    /\ process_exited(procs[Current])
    /\ frame' = [frame EXCEPT !.pc = "join_stdout",
                              !.return_code = procs[Current].returncode]
    /\ UNCHANGED <<pc, term, launched, stdout_list, stderr_list, exit_code_list,
                   procs, pipes, drains, results, channels, reads>>
    /\ run_command_unchanged

\* stdout_thread.join(), stderr_thread.join()
JoinThread(stream) ==
    /\ pc = "run_commands"
    /\ frame.pc = IF stream = "stdout" THEN "join_stdout" ELSE "join_stderr"
    /\ thread_ended(drains[Current][stream])
    /\ frame' = [frame EXCEPT !.pc = IF stream = "stdout" THEN "read_stdout"
                                      ELSE "read_stderr"]
    /\ UNCHANGED <<pc, term, launched, stdout_list, stderr_list, exit_code_list,
                   procs, pipes, drains, results, channels, reads>>
    /\ run_command_unchanged

\* stdout = stdout_result[0], stderr = stderr_result[0]: IndexError when the
\* list is empty
ReadResult(stream) ==
    /\ pc = "run_commands"
    /\ frame.pc = IF stream = "stdout" THEN "read_stdout" ELSE "read_stderr"
    /\ reads' = Append(reads,
           [call |-> Current, stream |-> stream,
            exited |-> procs[Current].state = "exited",
            ended |-> {s \in Streams : drains[Current][s].pc \in {"done", "failed"}},
            found |-> Len(results[Current][stream])])
    /\ IF results[Current][stream] = <<>>
       THEN /\ frame' = [frame EXCEPT !.pc = "raised"]
            /\ Terminate(Raised("IndexError", "run_commands"))
       ELSE /\ frame' = [frame EXCEPT
                            ![stream] = results[Current][stream][1],
                            !.pc = IF stream = "stdout" THEN "join_stderr" ELSE "return"]
            /\ UNCHANGED <<pc, term>>
    /\ UNCHANGED <<launched, stdout_list, stderr_list, exit_code_list,
                   procs, pipes, drains, results, channels>>
    /\ run_command_unchanged

\* return stdout, stderr, return_code, and the three appends of _run_commands
Return ==
    /\ pc = "run_commands"
    /\ frame.pc = "return"
    /\ stdout_list' = Append(stdout_list, frame.stdout)
    /\ stderr_list' = Append(stderr_list, frame.stderr)
    /\ exit_code_list' = Append(exit_code_list, frame.return_code)
    /\ frame' = NoFrame
    /\ UNCHANGED <<pc, term, launched, procs, pipes, drains, results, channels, reads>>
    /\ run_command_unchanged

\* the parent: the loop of _run_commands and the statements of _run_command
Parent ==
    \/ Popen
    \/ \E stream \in Streams : Start(stream)
    \/ Wait
    \/ \E stream \in Streams : JoinThread(stream)
    \/ \E stream \in Streams : ReadResult(stream)
    \/ Return
    \/ RunReturn

\* One step of the child of call k: a write of one byte blocks while the pipe
\* is full; at its exit the streams it still holds are closed.
Child(k) ==
    /\ k \in 1..Len(procs)
    /\ procs[k].state = "running"
    /\ IF procs[k].ops = <<>>
       THEN /\ procs' = [procs EXCEPT ![k].state = "exited"]
            /\ pipes' = [pipes EXCEPT ![k].stdout.open = FALSE,
                                      ![k].stderr.open = FALSE]
       ELSE LET step == Head(procs[k].ops)
            IN /\ procs' = [procs EXCEPT ![k].ops = Tail(@)]
               /\ CASE step.op = "write" ->
                         /\ Len(pipes[k][step.stream].buf) < PipeCapacity
                         /\ pipes' = [pipes EXCEPT ![k][step.stream].buf =
                                                       Append(@, step.byte)]
                    [] step.op = "close" ->
                         pipes' = [pipes EXCEPT ![k][step.stream].open = FALSE]
                    [] OTHER -> UNCHANGED pipes
    /\ UNCHANGED <<pc, term, launched, stdout_list, stderr_list, exit_code_list,
                   frame, drains, results, channels, reads>>
    /\ run_command_unchanged

\* One step of the drain task of a stream of call k, in _read_stream
Drain(k, stream) ==
    /\ k \in 1..Len(drains)
    /\ LET thread == drains[k][stream]
           pipe == pipes[k][stream]
           line == readline(thread.pending, thread.eof)
       IN CASE thread.pc = "readline" /\ line.found ->
                 \* chunk = stream.readline(); if chunk == '': break; data += chunk
                 /\ drains' = [drains EXCEPT ![k][stream] =
                        [thread EXCEPT !.chunk = line.chunk,
                                       !.pending = line.rest,
                                       !.data = @ \o line.chunk,
                                       !.pc = IF line.chunk = <<>> THEN "append"
                                              ELSE "write"]]
                 /\ UNCHANGED <<pipes, results, channels>>
            [] thread.pc = "readline" /\ ~line.found /\ pipe.buf # <<>> ->
                 \* readline reads what the pipe holds and decodes it
                 /\ drains' = [drains EXCEPT ![k][stream] =
                        IF decodable(pipe.buf)
                        THEN [thread EXCEPT !.pending = @ \o pipe.buf]
                        ELSE [thread EXCEPT !.pc = "failed"]]
                 /\ pipes' = [pipes EXCEPT ![k][stream].buf = <<>>]
                 /\ UNCHANGED <<results, channels>>
            [] thread.pc = "readline" /\ ~line.found /\ pipe.buf = <<>> ->
                 \* readline blocks on the empty pipe until its end is met
                 /\ ~pipe.open
                 /\ drains' = [drains EXCEPT ![k][stream].eof = TRUE]
                 /\ UNCHANGED <<pipes, results, channels>>
            [] thread.pc = "write" ->
                 \* output.write(chunk); output.flush()
                 /\ channels' = [channels EXCEPT ![thread.target] =
                        Append(@, [call |-> k, stream |-> stream,
                                   chunk |-> thread.chunk])]
                 /\ drains' = [drains EXCEPT ![k][stream].pc = "readline"]
                 /\ UNCHANGED <<pipes, results>>
            [] thread.pc = "append" ->
                 \* result_list.append(data)
                 /\ results' = [results EXCEPT ![k][stream] = Append(@, thread.data)]
                 /\ drains' = [drains EXCEPT ![k][stream].pc = "done"]
                 /\ UNCHANGED <<pipes, channels>>
            [] OTHER -> FALSE
    /\ UNCHANGED <<pc, term, launched, stdout_list, stderr_list, exit_code_list,
                   frame, procs, reads>>
    /\ run_command_unchanged

NextChild ==
    \/ Parent
    \/ \E k \in 1..MaxLines : Child(k)
    \/ \E k \in 1..MaxLines, stream \in Streams : Drain(k, stream)

SpecChild == InitChild /\ [][NextChild]_vars

\* the scheduler lets the parent, every child and every drain task that can
\* take a step take one in the end
Fairness ==
    /\ WF_vars(Parent)
    /\ \A k \in 1..MaxLines : WF_vars(Child(k))
    /\ \A k \in 1..MaxLines, stream \in Streams : WF_vars(Drain(k, stream))

SpecChildFair == SpecChild /\ Fairness

-----------------------------------------------------------------------------
(* Several runs on one runner *)

MaxRuns == 2
MaxRunArgs == 2

\* The tokens of the runs: a help flag and the two command names, which are
\* plain words after a command name
RunTokens == {"--help", "hello", "echo_all"}

RunArgs == UNION {[1..n -> RunTokens] : n \in 0..MaxRunArgs}

\* The configurations the runner is constructed with: in one the command
\* with '$@' is a list of lines, in the other a single line
RunConfigs ==
    {Configuration(EchoHi, List(<<EchoTwice, FalseLine>>)),
     Configuration(List(<<FalseLine, EchoHi>>), EchoAll)}

\* What the child of a line does in these runs
RunChildRuns ==
    { [stdout |-> <<"out", "\n">>, stderr |-> <<>>, returncode |-> 0],
      [stdout |-> <<>>, stderr |-> <<"oops", "\n">>, returncode |-> 1] }

\* How a later run is called: run(args=...) alone, or run(config=cfg,
\* args=...) with the dict object the runner was constructed with
RunForms == {"args", "config_and_args"}

\* YamlRunner(program, config=cfg) on either build of argparse
InitRuns ==
    /\ pc = "constructed"
    /\ caller = "api"
    /\ supplied \in RunConfigs
    /\ file_doc = DefaultDoc
    /\ config = supplied
    /\ by_ref = TRUE
    /\ external_args = <<>>
    /\ remaining_args = NoneV
    /\ used_args = << {Program} >>
    /\ help1 = FALSE
    /\ command_dicts = <<>>
    /\ command_tok = NoTok
    /\ help2 = FALSE
    /\ command_dict = NoPath
    /\ commands = <<>>
    /\ commands_alias = FALSE
    /\ stages_parsed = <<>>
    /\ passthrough = FALSE
    /\ help3 = FALSE
    /\ launched = <<>>
    /\ stdout_list = <<>>
    /\ stderr_list = <<>>
    /\ exit_code_list = <<>>
    /\ out = NoneV
    /\ err = NoneV
    /\ term = Running
    /\ process_exit = -1
    /\ supply = NoSupply
    /\ rendering = NoRendering
    /\ frame = NoFrame
    /\ procs = <<>>
    /\ pipes = <<>>
    /\ drains = <<>>
    /\ results = <<>>
    /\ channels = NoOutput
    /\ reads = <<>>
    /\ session \in {[run |-> 1, strict |-> strict] : strict \in BOOLEAN}

\* A later run(config, args) on the runner, after a run that returned or
\* that raised and was caught by the caller, up to the call of
\* _get_pre_config_args and the new_subparser(name='initial_args') it
\* starts with. The runner keeps _config, _used_args, _command_dict,
\* commands and its subparsers; _set_config, called when a configuration is
\* given, makes the subparsers anew. What the run before showed and the
\* locals of its stages are gone.
RunAgain(form, args) ==
    /\ pc \in {"returned", "raised"}
    /\ caller = "api"
    /\ session.run < MaxRuns
    /\ session' = [session EXCEPT !.run = @ + 1]
    /\ external_args' = IF args # <<>> THEN args ELSE HostArgv
    /\ remaining_args' = NoneV
    /\ IF form = "args" /\ session.strict
       THEN /\ used_args' = get_used_args_string(
                                IF args # <<>> THEN args ELSE HostArgv,
                                NoneV, used_args).used_args
            /\ Terminate(Raised("ArgumentError", "pre_config"))
       ELSE /\ pc' = "pre_config"
            /\ term' = Running
            /\ UNCHANGED used_args
    /\ help1' = FALSE
    /\ help2' = FALSE
    /\ help3' = FALSE
    /\ command_dicts' = <<>>
    /\ command_tok' = NoTok
    /\ stages_parsed' = <<>>
    /\ passthrough' = FALSE
    /\ launched' = <<>>
    /\ stdout_list' = <<>>
    /\ stderr_list' = <<>>
    /\ exit_code_list' = <<>>
    /\ out' = NoneV
    /\ err' = NoneV
    /\ UNCHANGED <<caller, file_doc, supplied, by_ref, config, command_dict,
                   commands, commands_alias, process_exit>>
    /\ UNCHANGED <<supply, rendering>>
    /\ UNCHANGED child_vars

NextRuns ==
    \/ /\ pc = "constructed"
       /\ \E args \in RunArgs : \E cfg \in {NoneV, supplied} : Run(cfg, args)
    \/ PreConfig
    \/ ProcessCommands
    \/ ProcessCommandConfig
    \/ /\ pc = "run_commands"
       /\ \E child \in RunChildRuns : RunCommand(child)
    \/ RunReturn
    \/ \E form \in RunForms : \E args \in RunArgs : RunAgain(form, args)

SpecRuns == InitRuns /\ [][NextRuns]_vars

-----------------------------------------------------------------------------
(* A run whose arguments may hold '--' *)

MaxDashArgs == 3

\* The tokens of these runs: '--', two help flags, the two command names
DashTokens == {"--", "--help", "-h", "hello", "echo_all"}

DashArgs == UNION {[1..n -> DashTokens] : n \in 0..MaxDashArgs}

\* YamlRunner(program, config=cfg)
InitDash ==
    /\ InitRuns
    /\ session = FirstRun

NextDash ==
    \/ /\ pc = "constructed"
       /\ \E args \in DashArgs : \E cfg \in {NoneV, supplied} : Run(cfg, args)
    \/ PreConfig
    \/ ProcessCommands
    \/ ProcessCommandConfig
    \/ /\ pc = "run_commands"
       /\ \E child \in RunChildRuns : RunCommand(child)
    \/ RunReturn

SpecDash == InitDash /\ [][NextDash]_vars

-----------------------------------------------------------------------------
(* Properties *)

\* the key paths of a tree that lead from its root through dicts only
RECURSIVE PathsOf(_)
PathsOf(node) ==
    IF node.t # "dict" THEN {}
    ELSE UNION {{<<node.items[i].k>>}
                    \cup {<<node.items[i].k>> \o q : q \in PathsOf(node.items[i].v)} :
                i \in 1..Len(node.items)}

\* the node at the path is a dict holding a truthy 'command'
IsCommandNode(tree, path) ==
    /\ Lookup(tree, path).t = "dict"
    /\ Truthy(Get(Lookup(tree, path), "command"))

StrictPrefix(p, q) == Len(p) < Len(q) /\ SubSeq(q, 1, Len(p)) = p

\* the command nodes below the root that no other command node below the
\* root contains
OutermostCommandPaths(tree) ==
    {p \in PathsOf(tree) :
        /\ IsCommandNode(tree, p)
        /\ \A k \in 1..(Len(p) - 1) : ~IsCommandNode(tree, SubSeq(p, 1, k))}

\* C1: the walker, started at the root mapping, returns exactly the nodes
\* below the root that hold a truthy command and are reached by descending
\* only through mappings that hold none, each of them once; none of the
\* returned nodes lies inside another; each carries as its name the key under
\* which it was found.
C1_WalkerReturnsOutermostCommands ==
    pc = "walked" =>
        /\ Range(command_dicts) = OutermostCommandPaths(supplied)
        /\ \A i, j \in 1..Len(command_dicts) :
               /\ (command_dicts[i] = command_dicts[j] => i = j)
               /\ ~StrictPrefix(command_dicts[i], command_dicts[j])
        /\ \A i \in 1..Len(command_dicts) :
               Get(Lookup(config, command_dicts[i]), "name")
                   = Str(<<command_dicts[i][Len(command_dicts[i])]>>)

\* a walked tree with a command returned from inside a group, and a command
\* node that is not returned because it lies inside a command node
C1_Witness ==
    /\ pc = "walked"
    /\ \E i \in 1..Len(command_dicts) : Len(command_dicts[i]) = 2
    /\ \E p \in PathsOf(supplied) :
           /\ IsCommandNode(supplied, p)
           /\ \E i \in 1..Len(command_dicts) : StrictPrefix(command_dicts[i], p)

\* run has ended: it returned, raised, or the CLI process has exited
Terminal == pc \in {"returned", "raised", "exited"}

\* the run went on to _run_commands
ReachedExecution ==
    \/ pc \in {"run_commands", "returned"}
    \/ pc = "exited" /\ term.kind = "return"

\* the line sequence the active command declares in the configuration as it
\* was supplied: a single string counts as a sequence of one line
DeclaredLines ==
    LET command == Get(Lookup(supplied, command_dict), "command")
    IN IF command.t = "list" THEN command.l ELSE <<command>>

\* the tokens joined by single spaces; the empty string for no tokens
SpaceJoined(tokens) ==
    [i \in 1..(2 * Len(tokens) - 1) |->
        IF i % 2 = 1 THEN tokens[(i + 1) \div 2] ELSE " "]

OccursAt(line, i) == i < Len(line) /\ line[i] = "$" /\ line[i + 1] = "@"

\* a line with the text put in the place of each '$@'
WithPassthrough(line, text) ==
    Join(<<>>, [i \in 1..Len(line) |->
                   IF OccursAt(line, i) THEN text
                   ELSE IF i > 1 /\ OccursAt(line, i - 1) THEN <<>>
                   ELSE <<line[i]>>])

\* C2: on every run that reaches execution, the lines handed to the runner
\* are the declared lines of the active command, as many and in the same
\* order, each with every '$@' replaced by the passthrough tokens joined by
\* single spaces; a line without '$@' is handed over as declared.
C2_LinesAreDeclaredLinesSubstituted ==
    ReachedExecution =>
        /\ Len(commands) = Len(DeclaredLines)
        /\ \A i \in 1..Len(commands) :
               /\ commands[i] = Str(WithPassthrough(DeclaredLines[i].s,
                                                     SpaceJoined(remaining_args.l)))
               /\ (~Contains(DeclaredLines[i].s, Placeholder)
                       => commands[i] = DeclaredLines[i])
        /\ \A i \in 1..Len(launched) : launched[i].command = commands[i]

\* a returned run of two lines, the first with two placeholders, with two
\* passthrough tokens
C2_Witness ==
    /\ pc = "returned"
    /\ DeclaredLines = <<EchoTwice, FalseLine>>
    /\ Len(remaining_args.l) = 2
    /\ Len(launched) = 2

\* C3: a returned run of a command of n lines has launched all n lines in
\* declared order, whatever the exit status of the earlier lines, and each of
\* the three returned sequences has n entries, the i-th being what the child
\* of the i-th line wrote and returned.
C3_AllLinesRunInOrder ==
    (pc = "returned" \/ (pc = "exited" /\ term.kind = "return")) =>
        LET n == Len(DeclaredLines)
        IN /\ Len(commands) = n
           /\ Len(launched) = n
           /\ Len(stdout_list) = n
           /\ Len(stderr_list) = n
           /\ Len(exit_code_list) = n
           /\ \A i \in 1..n :
                  /\ launched[i].command = commands[i]
                  /\ stdout_list[i] = launched[i].child.stdout
                  /\ stderr_list[i] = launched[i].child.stderr
                  /\ exit_code_list[i] = launched[i].child.returncode

\* a returned run of two lines whose first line failed
C3_Witness ==
    /\ pc = "returned"
    /\ Len(DeclaredLines) = 2
    /\ Len(exit_code_list) = 2
    /\ exit_code_list[1] # 0

\* a token that is not an option string: it does not start with '-'
IsPath(tok) == Chars(tok)[1] # "-"

\* the arguments hold -c followed by a path
HasConfigPath(args) ==
    \E i \in 1..(Len(args) - 1) : args[i] \in ConfigOptions /\ IsPath(args[i + 1])

\* C4: when no configuration was supplied programmatically and the arguments
\* hold no -c/--config path, the run ends in the pre-config stage with status
\* 2 and an error text that mentions -c and --config, with or without a help
\* flag; the command-selection stage is not entered and nothing is launched.
C4_NoConfigIsUsageError ==
    (pc \notin {"constructed", "pre_config", "walk", "walked"}
         /\ ~by_ref /\ ~HasConfigPath(external_args)) =>
        /\ Terminal
        /\ term = SystemExit(2, "pre_config")
        /\ Mentions(err, Chars("-c"))
        /\ Mentions(err, Chars("--config"))
        /\ stages_parsed = <<>>
        /\ command_dicts = <<>>
        /\ launched = <<>>

\* the run without a configuration and with a help flag only
C4_Witness ==
    /\ pc = "raised"
    /\ ~by_ref
    /\ external_args = <<"--help">>
    /\ term.code = 2

\* the text after the leading spaces of a line
Stripped(line) == Drop(line, LeadingSpaces(line))

\* what the help shows for the command at a path of the configuration
ChoiceShown(tree, path) ==
    LET description == Get(Lookup(tree, path), "description")
    IN <<path[Len(path)]>>
           \o (IF Truthy(description) THEN <<" ", "-", " ">> \o description.s
               ELSE <<>>)

\* C5: when the command-selection stage finds no command among the arguments
\* of a run with a configuration, with or without a help flag, the run ends
\* there with status 0, having printed a help text that lists the name of
\* every discovered command in walker order, each with its description when
\* it has one; nothing is launched.
C5_NoCommandPrintsChoices ==
    (stages_parsed = <<"pre_config", "process_commands">> /\ command_tok = NoTok) =>
        /\ Terminal
        /\ term = SystemExit(0, "process_commands")
        /\ err = NoneV
        /\ launched = <<>>
        /\ Range(command_dicts) = OutermostCommandPaths(supplied)
        /\ out.t = "text"
        /\ \E k \in 1..Len(out.lines) :
               /\ Stripped(out.lines[k]) = <<"Choices:">>
               /\ k + Len(command_dicts) <= Len(out.lines)
               /\ \A i \in 1..Len(command_dicts) :
                      Stripped(out.lines[k + i]) = ChoiceShown(supplied, command_dicts[i])

\* a run without a help flag and without a command, of a configuration with
\* a described and an undescribed command
C5_Witness ==
    /\ Terminal
    /\ stages_parsed = <<"pre_config", "process_commands">>
    /\ command_tok = NoTok
    /\ ~help1 /\ ~help2
    /\ Len(command_dicts) = 2
    /\ Truthy(Get(Lookup(supplied, command_dicts[1]), "description"))
    /\ ~Truthy(Get(Lookup(supplied, command_dicts[2]), "description"))

\* the names of the commands of a configuration
CommandNames(tree) == {p[Len(p)] : p \in OutermostCommandPaths(tree)}

\* a help flag is among the arguments
HelpGiven == Range(external_args) \cap HelpOptions # {}

\* C6: when the command-selection stage took a valid command name, a line of
\* that command holds '$@' and a help flag is among the arguments, the run
\* ends in the command-parameter stage with status 0, having printed the
\* usage of that command with the PASSTHROUGH positional; no child process
\* is launched.
C6_CommandHelpShowsPassthrough ==
    (/\ pc \notin {"process_commands", "process_command_config"}
     /\ command_tok \in CommandNames(supplied)
     /\ \E i \in 1..Len(DeclaredLines) : Contains(DeclaredLines[i].s, Placeholder)
     /\ HelpGiven) =>
        /\ Terminal
        /\ term = SystemExit(0, "process_command_params")
        /\ launched = <<>>
        /\ out.t = "text"
        /\ Mentions(out, <<"[">> \o MetavarPassthrough \o <<" ", "...", "]">>)
        /\ \E i \in 1..Len(out.prog) : command_tok \in out.prog[i]

\* help asked after the command and a passthrough token
C6_Witness ==
    /\ Terminal
    /\ external_args = <<"echo_all", "f", "--help">>
    /\ command_tok = "echo_all"
    /\ help1 /\ help2 /\ help3
    /\ term.stage = "process_command_params"

\* C7: if the token taken as the command positional of the command-selection
\* stage is not the name of a discovered command, the run ends with a usage
\* error of status 2; the command-parameter stage is not entered and nothing
\* is launched.
C7_UnknownCommandIsUsageError ==
    (command_tok # NoTok /\ command_tok \notin CommandNames(supplied)) =>
        /\ Terminal
        /\ term = SystemExit(2, "process_commands")
        /\ Mentions(err, <<"invalid choice:", " ", command_tok>>)
        /\ command_dict = NoPath
        /\ "process_command_params" \notin Range(stages_parsed)
        /\ commands = <<>>
        /\ launched = <<>>

\* a token that is no command name, after an option no parser declares
C7_Witness ==
    /\ Terminal
    /\ external_args = <<"-x", "f">>
    /\ by_ref
    /\ command_dicts # <<>>
    /\ command_tok = "f"

\* a help flag was recognized by the parser of one of the three stages
HelpRecognized == help1 \/ help2 \/ help3

C9_CliReportsLastStatus ==
    (pc = "exited" /\ term.kind = "return") =>
        process_exit = exit_code_list[Len(exit_code_list)]

\* C10: no stage of run changes the configuration the caller owns: the
\* configuration the runner holds by reference stays equal to the tree that
\* was supplied.
C10_ConfigurationUnchanged ==
    by_ref => config = supplied

\* C11: the same configuration given as a dict, as the path of its file and
\* as an open stream, with the same arguments, shows the same command dicts
\* and the same outcome of the run: the stage where it ends, its exit status
\* and the command lines handed to the shell.
C11_FormsAgree ==
    (pc = "compared" /\ Len(supply.outcomes) = 3) =>
        /\ supply.outcomes[1] = supply.outcomes[2]
        /\ supply.outcomes[2] = supply.outcomes[3]

\* the value being given as a configuration is of a wrong type
WrongTypeGiven ==
    /\ supply.given # <<>>
    /\ Head(supply.given).t \notin {"str", "stream", "dict", "none"}

\* C15: a configuration of a wrong type given to the constructor, the config
\* setter or run ends the run with that error: no stage parses, nothing is
\* launched, and the configuration held before is not used in its place.
C15_WrongTypeIsFatal ==
    (WrongTypeGiven /\ pc \notin {"holding", "constructed"}) =>
        /\ pc = "raised"
        /\ term = Raised("TypeError", "set_config")
        /\ stages_parsed = <<>>
        /\ launched = <<>>

\* the command the run selected is declared as one string without '$@'
SingleLineSelected ==
    /\ command_dict # NoPath
    /\ LET command == Get(Lookup(supplied, command_dict), "command")
       IN command.t = "str" /\ ~Contains(command.s, Placeholder)

\* C12: a run that selects a command declared as one string without '$@'
\* never launches more than one child; when it returns it has launched
\* exactly one, for exactly that string, and each of the three returned
\* sequences has length 1.
C12_SingleLineRunsOnce ==
    SingleLineSelected =>
        LET command == Get(Lookup(supplied, command_dict), "command")
        IN /\ Len(launched) <= 1
           /\ \A i \in 1..Len(launched) : launched[i].command = command
           /\ (pc = "returned" \/ (pc = "exited" /\ term.kind = "return")) =>
                  /\ Len(launched) = 1
                  /\ Len(stdout_list) = 1
                  /\ Len(stderr_list) = 1
                  /\ Len(exit_code_list) = 1

\* a returned run of the command declared as 'echo hi', with further
\* arguments after the command name
C12_Witness ==
    /\ pc = "returned"
    /\ SingleLineSelected
    /\ Len(launched) = 1
    /\ launched[1].command = EchoHi
    /\ Len(external_args) > 1

\* the first position at which two paths differ
FirstDifference(p, q) ==
    CHOOSE k \in 1..Len(p) :
        /\ k <= Len(q)
        /\ p[k] # q[k]
        /\ \A h \in 1..(k - 1) : p[h] = q[h]

\* in a depth-first, left-to-right traversal of the tree the node at p is
\* met before the node at q: below their last common ancestor, the key
\* that leads to p stands before the key that leads to q
MetBefore(tree, p, q) ==
    LET k == FirstDifference(p, q)
        ancestor == Lookup(tree, SubSeq(p, 1, k - 1))
    IN KeyIndex(ancestor, p[k]) < KeyIndex(ancestor, q[k])

\* C13: the command dicts are returned in the order of a depth-first,
\* left-to-right traversal of the configuration in the key order of its
\* mappings: of two returned command dicts the earlier one is the one whose
\* branch stands first in their last common ancestor, so a command inside a
\* nested mapping comes before every command under a later sibling key of
\* that mapping or of one of its ancestors.
C13_WalkerOrderIsDepthFirst ==
    pc = "walked" =>
        \A i, j \in 1..Len(command_dicts) :
            i < j => MetBefore(supplied, command_dicts[i], command_dicts[j])

\* a walked tree whose keys stand in another order than the alphabetical
\* one: two commands of the group under the first key 'c', then the command
\* under the later key 'a'
C13_Witness ==
    /\ pc = "walked"
    /\ command_dicts = << <<"c", "c">>, <<"c", "b">>, <<"a">> >>

\* the first line of the help string that starts with whitespace followed
\* by the metavar, 0 when there is none
PositionalLine ==
    LET lines == split_lines(rendering.help_string)
        metavar == rendering.command_metavar
        Hit(i) == \E n \in 1..Len(lines[i]) :
                      /\ \A k \in 1..n : lines[i][k] = " "
                      /\ Len(lines[i]) >= n + Len(metavar)
                      /\ SubSeq(lines[i], n + 1, n + Len(metavar)) = metavar
    IN IF \E i \in 1..Len(lines) : Hit(i)
       THEN CHOOSE i \in 1..Len(lines) : Hit(i) /\ \A j \in 1..(i - 1) : ~Hit(j)
       ELSE 0

\* the column of a line at which the text after the first word starts: the
\* number of symbols up to the end of the whitespace that follows the word
DescriptionColumn(line) ==
    LET word == CHOOSE n \in 1..Len(line) :
                    line[n] # " " /\ \A k \in 1..(n - 1) : line[k] = " "
        gap == CHOOSE n \in word..Len(line) :
                   /\ line[n] = " "
                   /\ \A k \in word..(n - 1) : line[k] # " "
    IN IF \E n \in gap..Len(line) : line[n] # " "
       THEN (CHOOSE n \in gap..Len(line) :
                 line[n] # " " /\ \A k \in gap..(n - 1) : line[k] = " ") - 1
       ELSE Len(line)

\* the text of a choice in the Choices block
ChoiceText(choice) ==
    IF choice.description = NoneV THEN choice.name
    ELSE choice.name \o <<" ", "-", " ">> \o choice.description.s

\* C14: what add_choices_to_help returns is the help string with one block
\* put in directly below the first line that starts with whitespace followed
\* by the metavar: a 'Choices:' line indented to the column where the
\* description of that line starts, then one line for each choice, in the
\* order given, holding the name, or the name, ' - ' and the description;
\* every line of the help string is kept as it was and in its place, so the
\* result has 1 + (number of choices) lines more than the help string.
C14_ChoicesBlockInserted ==
    pc = "rendered" =>
        LET given == split_lines(rendering.help_string)
            result == split_lines(rendering.result)
            choices == rendering.choices
            n == Len(choices)
            at == PositionalLine
            column == DescriptionColumn(given[at])
        IN /\ at > 0
           /\ Len(result) = Len(given) + 1 + n
           /\ \A i \in 1..at : result[i] = given[i]
           /\ \A i \in (at + 1)..Len(given) : result[i + 1 + n] = given[i]
           /\ result[at + 1] = Spaces(column) \o <<"Choices:">>
           /\ \A i \in 1..n :
                  result[at + 1 + i] = Spaces(column + 2) \o ChoiceText(choices[i])

\* the reads of a result list that the parent has made
Reads == {reads[i] : i \in 1..Len(reads)}

C17_ReadFindsOneValue ==
    /\ \A k \in 1..Len(results) : \A s \in Streams :
           /\ Len(results[k][s]) <= 1
           /\ results[k][s] # <<>> =>
                  /\ drains[k][s].pc = "done"
                  /\ results[k][s][1] = drains[k][s].data
    /\ \A r \in Reads : r.stream \in r.ended /\ r.found = 1

\* the children that have not exited, the drain tasks that have not ended
LiveChildren == {k \in 1..Len(procs) : procs[k].state # "exited"}
LiveDrains ==
    {<<k, s>> \in (1..Len(drains)) \X Streams : ~(drains[k][s].pc \in {"done", "failed"})}

\* C18: the lines of self.commands run one after the other: at any time at
\* most one child process and at most two drain tasks exist, and when a
\* line is launched the children of the lines before it have exited and
\* their drain tasks have ended.
C18_LinesRunOneAtATime ==
    /\ Cardinality(LiveChildren) <= 1
    /\ Cardinality(LiveDrains) <= 2
    /\ \A k \in 1..(Len(procs) - 1) :
           /\ procs[k].state = "exited"
           /\ \A s \in Streams : drains[k][s].pc \in {"done", "failed"}
    /\ Len(procs) = Len(launched)
    /\ Len(exit_code_list) \in {Len(procs) - 1, Len(procs)}

\* the second line at work, its child running and both its drain tasks
\* reading, after a first line that wrote on both streams
C18_Witness ==
    /\ Len(procs) = 2
    /\ procs[2].state = "running"
    /\ drains[2].stdout.pc = "readline"
    /\ drains[2].stderr.pc = "readline"
    /\ launched[1].child.stdout # <<>>
    /\ launched[1].child.stderr # <<>>

\* what the drain tasks of call k wrote on a channel of the parent, in order
RECURSIVE EchoedIn(_, _)
EchoedIn(written_chunks, k) ==
    IF written_chunks = <<>> THEN <<>>
    ELSE (IF Head(written_chunks).call = k THEN Head(written_chunks).chunk ELSE <<>>)
             \o EchoedIn(Tail(written_chunks), k)

Echoed(k, s) == EchoedIn(channels[s], k)

\* what run returned for stream s of line k
Captured(k, s) == IF s = "stdout" THEN stdout_list[k] ELSE stderr_list[k]

\* C19: for each stream of each child, the string returned to the caller is
\* what the child wrote to that stream, and is what was echoed for it on
\* the parent's channel of the same name; every line read has been echoed
\* before the next one is read; nothing of stdout is echoed on stderr and
\* nothing of stderr on stdout.
C19_CapturedIsWrittenAndEchoed ==
    /\ \A k \in 1..Len(exit_code_list) : \A s \in Streams :
           /\ Captured(k, s) = launched[k].child[s]
           /\ Captured(k, s) = Echoed(k, s)
    /\ \A k \in 1..Len(drains) : \A s \in Streams :
           drains[k][s].pc \in {"readline", "append", "done"}
               => drains[k][s].data = Echoed(k, s)
    /\ \A s \in Streams : \A i \in 1..Len(channels[s]) : channels[s][i].stream = s

\* C20: with a scheduler that lets the parent, the children and the drain
\* tasks take the steps they can take, run returns in the end, with a result
\* for every line.
C20_RunReturns ==
    <>(pc = "returned" /\ Len(exit_code_list) = Len(commands))

\* the three parsing stages in the order of run
ParsingStages == <<"pre_config", "process_commands", "process_command_params">>

\* the number of parsing stages that lie before the point where run ended
StagesBefore(stage) ==
    CASE stage = "set_config" -> 0
      [] stage = "pre_config" -> 1
      [] stage = "process_commands" -> 2
      [] stage = "process_command_params" -> 3
      [] OTHER -> 3

\* C21: the stages run in the order pre-config, command selection, command
\* parameters, execution: a child is launched only when all three parsing
\* stages have parsed and none has ended the run; a run ended by a stage
\* (help, usage error, configuration error) has entered no later stage,
\* has launched nothing and returns no results.
C21_StagesRunInOrder ==
    /\ \E n \in 0..3 : stages_parsed = SubSeq(ParsingStages, 1, n)
    /\ pc = "process_commands" => stages_parsed = SubSeq(ParsingStages, 1, 1)
    /\ pc = "process_command_config" => stages_parsed = SubSeq(ParsingStages, 1, 2)
    /\ (pc \in {"run_commands", "returned"} \/ launched # <<>>) =>
           /\ stages_parsed = ParsingStages
           /\ term.kind \in {"running", "return"}
    /\ term.kind \in {"exit", "raise"} =>
           /\ pc \in {"raised", "exited"}
           /\ Len(stages_parsed) <= StagesBefore(term.stage)
           /\ term.stage = "pre_config" => command_dicts = <<>> /\ command_tok = NoTok
           /\ term.stage # "process_command_params" => commands = <<>>
           /\ launched = <<>>
           /\ stdout_list = <<>> /\ stderr_list = <<>> /\ exit_code_list = <<>>

\* a run ended by help in the second stage, the help flag deferred from the
\* first: the third stage is not entered and nothing is launched
C21_Witness ==
    /\ pc = "raised"
    /\ term = SystemExit(0, "process_commands")
    /\ stages_parsed = SubSeq(ParsingStages, 1, 2)
    /\ help1 /\ help2

\* stage 1 recognized a help flag and handed on to stage 2, whose parser
\* has returned
HelpDeferredToSelection == help1 /\ Len(stages_parsed) >= 2

CommandConfigProcessed ==
    /\ command_dict # NoPath
    /\ pc \notin {"process_commands", "process_command_config"}

\* a line of the selected command, as declared, holds '$@'
PlaceholderDeclared ==
    \E i \in 1..Len(DeclaredLines) : Contains(DeclaredLines[i].s, Placeholder)

\* C23: stage 3 declares the passthrough positional exactly when '$@' occurs
\* in a line of the selected command; the help of a command without '$@'
\* shows no passthrough positional.
C23_PassthroughOnlyWithPlaceholder ==
    CommandConfigProcessed =>
        /\ passthrough <=> PlaceholderDeclared
        /\ (help3 /\ ~PlaceholderDeclared) => ~Mentions(out, MetavarPassthrough)

\* the pre-config stage recognized a help flag, the runner held no
\* configuration when the run began, and the file named by -c was read and
\* holds none: an empty document or an empty mapping
HelpWithoutConfiguration ==
    /\ help1
    /\ pc # "pre_config"
    /\ ~by_ref
    /\ term # Raised("FileNotFoundError", "pre_config")
    /\ config \in {NoneV, Dict(<<>>)}

EndsWithOneHelpToken(tokens) ==
    /\ Len(tokens) >= 1
    /\ tokens[Len(tokens)] \in HelpOptions
    /\ \A i \in 1..(Len(tokens) - 1) : tokens[i] \notin HelpOptions

\* C25: when the pre-config stage recognizes a help flag and the
\* configuration is not empty, the stage neither prints nor ends the run,
\* and the leftover tokens it hands to command selection end with exactly
\* one help token; command selection does the same for the
\* command-parameter stage when it recognizes help together with a command
\* name.
C25_HelpIsReinjected ==
    /\ (help1 /\ Truthy(config) /\ pc # "pre_config") =>
           /\ ~(Terminal /\ term.stage = "pre_config")
           /\ pc = "process_commands" =>
                  (out = NoneV /\ EndsWithOneHelpToken(remaining_args.l))
    /\ (help2 /\ command_tok # NoTok /\ pc # "process_commands") =>
           /\ ~(Terminal /\ term.stage = "process_commands")
           /\ pc = "process_command_config" =>
                  (out = NoneV /\ EndsWithOneHelpToken(remaining_args.l))

NodesOfSelectedName ==
    SelectSeq(get_command_sections(supplied).command_dicts,
              LAMBDA path : path[Len(path)] = command_tok)

\* C28: when command selection activates a node, it is the first node in
\* walker order that carries the selected name, also when other nodes carry
\* it too, and the lines resolved for execution are the lines of that node.
C28_FirstMatchWins ==
    CommandConfigProcessed =>
        /\ NodesOfSelectedName # <<>>
        /\ command_dict = NodesOfSelectedName[1]
        /\ Len(stages_parsed) = 3 =>
               commands = substitute(command_lines(Get(Lookup(supplied,
                                                             NodesOfSelectedName[1]),
                                                      "command")),
                                     remaining_args.l)
        /\ \A i \in 1..Len(launched) : launched[i].command = commands[i]

\* a name carried by two nodes was selected and the first node ran
C28_Witness ==
    /\ pc = "returned"
    /\ supplied = Homonyms
    /\ command_tok = "hello"
    /\ Len(NodesOfSelectedName) = 2
    /\ command_dict = <<"group", "hello">>
    /\ Len(launched) = 1
    /\ launched[1].command = FalseLine

\* a configuration document without a command node; an empty document loads
\* as None
ZeroCommands(document) ==
    \/ document = NoneV
    \/ document.t = "dict" /\ get_command_sections(document).command_dicts = <<>>

\* the arguments hold no help flag and no word, but the path of the config
\* option where the parser declares that option
NoCommandName(args) ==
    \A i \in 1..Len(args) :
        \/ args[i] \in {"-c", "-x"}
        \/ args[i] = "f" /\ i > 1 /\ args[i - 1] = "-c" /\ ~by_ref

\* C29: a run without a command name against a configuration without
\* commands, an empty document included, gets through the pre-config stage
\* and ends in command selection with status 0, having printed the help
\* with a choices block that lists nothing; no exception leaves the run.
C29_ZeroCommandsIsValid ==
    (/\ pc # "pre_config"
     /\ Len(stages_parsed) >= 1
     /\ term # Raised("FileNotFoundError", "pre_config")
     /\ NoCommandName(external_args)
     /\ ZeroCommands(supplied)) =>
        \/ pc = "process_commands"
        \/ /\ Terminal
           /\ term = SystemExit(0, "process_commands")
           /\ command_dicts = <<>>
           /\ launched = <<>>
           /\ out.t = "text"
           /\ \E k \in 1..(Len(out.lines) - 1) :
                  /\ Stripped(out.lines[k]) = <<"Choices:">>
                  /\ out.lines[k + 1] = <<>>

\* a line that starts with whitespace followed by the metavar has no
\* description column: the line ends with the metavar, or what follows the
\* metavar directly is not whitespace
NoDescriptionColumn(line, metavar) ==
    LET word == CHOOSE n \in 1..Len(line) :
                    line[n] # " " /\ \A k \in 1..(n - 1) : line[k] = " "
        after == word + Len(metavar)
    IN Len(line) < after \/ line[after] # " "

\* C30: add_choices_to_help raises IndexError exactly when no line of the
\* help string starts with whitespace followed by the metavar, and
\* ValueError exactly when the first such line has no whitespace directly
\* after the metavar, even if a later line has; when it raises, no text is
\* returned, and when it does not, a text is.
C30_RendererFailsLoudly ==
    pc # "render" =>
        LET lines == split_lines(rendering.help_string)
            first == PositionalLine
        IN /\ rendering.raised = "IndexError" <=> first = 0
           /\ rendering.raised = "ValueError" <=>
                  (first # 0 /\ NoDescriptionColumn(lines[first],
                                                    rendering.command_metavar))
           /\ rendering.raised \in {"", "IndexError", "ValueError"}
           /\ rendering.raised # "" => (pc = "render_raised" /\ rendering.result = <<>>)
           /\ rendering.raised = "" => (pc = "rendered" /\ rendering.result # <<>>)

\* the first line that holds the metavar has no description column, a later
\* line has one, and the call raised
C30_Witness ==
    /\ pc = "render_raised"
    /\ rendering.raised = "ValueError"
    /\ rendering.result = <<>>
    /\ rendering.choices # <<>>
    /\ LET lines == split_lines(rendering.help_string)
       IN \E i \in (PositionalLine + 1)..Len(lines) :
              /\ find_command_help_line(lines[i], rendering.command_metavar)
              /\ ~NoDescriptionColumn(lines[i], rendering.command_metavar)

\* C26: the lines a run resolves are those of the active command as the
\* configuration declares it, with '$@' replaced by this run's passthrough
\* tokens, whatever runs were made on the runner before; and a later run
\* does not fail on what an earlier run left in the runner.
C26_RunsAreIndependent ==
    /\ Len(stages_parsed) = 3 =>
           commands = substitute(command_lines(Get(Lookup(supplied, command_dict),
                                                   "command")),
                                 remaining_args.l)
    /\ \A i \in 1..Len(launched) : launched[i].command = commands[i]
    /\ term # Raised("ArgumentError", "pre_config")

\* how often a token occurs in a token list
Occurrences(tokens, tok) == Cardinality({i \in 1..Len(tokens) : tokens[i] = tok})

\* every token occurs in part at most as often as in whole
SubMultiset(part, whole) ==
    \A tok \in Range(part) : Occurrences(part, tok) <= Occurrences(whole, tok)

\* part is what is left of whole when some of its elements are taken out
RECURSIVE IsSubsequence(_, _)
IsSubsequence(part, whole) ==
    IF part = <<>> THEN TRUE
    ELSE IF whole = <<>> THEN FALSE
    ELSE IF Head(part) = Head(whole) THEN IsSubsequence(Tail(part), Tail(whole))
    ELSE IsSubsequence(part, Tail(whole))

\* the tokens but the last one
Front(tokens) == SubSeq(tokens, 1, Len(tokens) - 1)

\* C31: whenever the runner holds a list of leftover tokens, it is a
\* sub-multiset of the arguments of the run; it is the arguments with the
\* consumed ones taken out, in their order, or that followed by one help
\* flag that occurs in the arguments; so removing each leftover token from
\* a copy of the arguments never fails and no run ends with ValueError.
C31_LeftoversAreOriginalTokens ==
    /\ remaining_args.t = "list" =>
           LET leftover == remaining_args.l
           IN /\ SubMultiset(leftover, external_args)
              /\ \/ IsSubsequence(leftover, external_args)
                 \/ /\ leftover # <<>>
                    /\ leftover[Len(leftover)] \in HelpOptions \cap Range(external_args)
                    /\ IsSubsequence(Front(leftover), external_args)
              /\ remove_unparsed(external_args, leftover).raised = ""
    /\ ~(pc = "raised" /\ term.kind = "raise" /\ term.exc = "ValueError")

====
